---- MODULE Spec2Model ----
(***************************************************************************)
(* EnvVault vault engine: binary envelope, key hierarchy, atomic save and  *)
(* the in-memory secret lifecycle (src/src/vault, src/src/crypto) together *)
(* with the rotate-key command (src/src/cli/commands/rotate.rs).           *)
(*                                                                         *)
(* Representation.  A file is a sequence of cells [k, v].  Cells of kind   *)
(* "b" are single bytes (v is the byte value).  A JSON field and an HMAC   *)
(* output byte are tokens whose kind is the field name ("salt", "secret",  *)
(* "mac", ...) and whose v is the value the bytes encode.  Cryptographic   *)
(* functions are symbolic terms: equal outputs exactly for equal inputs.   *)
(* Strings that the code inspects byte by byte (names, HKDF labels) are    *)
(* sequences of ASCII codes; opaque strings (passwords, plaintexts) are    *)
(* TLA+ strings.                                                           *)
(***************************************************************************)
EXTENDS Integers, Sequences, FiniteSets, TLC

VARIABLES
    target,     \* the vault file at `path`: [exists, data]
    tmp,        \* the sibling temp file `.<name>.tmp`: [exists, data]
    fdAt,       \* per process: where the inode of its open temp-file descriptor is linked
    off,        \* per process: write offset of that descriptor
    pc,         \* per process: position inside write_vault ("idle" when no call is in flight)
    op,         \* per process: the call in flight ("none", "create", "save", "rotate")
    store,      \* per process: its VaultStore (header, secrets, master_key) or NullStore
    last,       \* per process: the last call and what it returned
    now,        \* Utc::now()
    plain,      \* per process: name -> plaintext the caller last set (observer record)
    cred,       \* per process: password and keyfile its store was built with (observer record)
    diskPlain,  \* name -> plaintext of the save whose rename executed last (observer record)
    diskCred,   \* password and keyfile of the save whose rename executed last (observer record)
    lastRename, \* the envelope handed to write_vault by the save whose rename executed last
    edits,      \* number of bytes an outside party has changed in the vault file
                \* (2: a whole field, two bytes or more)
    editTmp,    \* per process: the plaintext temp file of its latest run of `edit`
    audit,      \* the rows of audit_log in audit.db
    dest        \* the file `export --output` writes

vars == <<target, tmp, fdAt, off, pc, op, store, last, now, plain, cred,
          diskPlain, diskCred, lastRename, edits, editTmp, audit, dest>>

cliVars == <<editTmp, audit, dest>>

fsVars == <<target, tmp, fdAt, off>>

(***************************************************************************)
(* Bounds of the model                                                     *)
(***************************************************************************)
MaxTime == 1        \* the clock takes the values 0..MaxTime
WriteGranule == 24  \* a short write() transfers this many cells

Writers == {1, 2}

(***************************************************************************)
(* Program constants                                                       *)
(***************************************************************************)
MAGIC == <<69, 86, 76, 84>>          \* b"EVLT"
CURRENT_VERSION == 1
HMAC_LEN == 32
PREFIX_LEN == 9
KEYFILE_LEN == 32
MIN_MEMORY_KIB == 8192

\* b"envvault-hmac-key"
HMAC_INFO == <<101, 110, 118, 118, 97, 117, 108, 116, 45, 104, 109, 97, 99, 45, 107, 101, 121>>
\* b"envvault-secret:"
SECRET_INFO_PREFIX == <<101, 110, 118, 118, 97, 117, 108, 116, 45, 115, 101, 99, 114, 101, 116, 58>>

(***************************************************************************)
(* Input alphabets                                                         *)
(***************************************************************************)
Passwords == {"pwA", "pwB"}

NoKeyfile == [id |-> "none", len |-> 0]          \* Option::None
KF1 == [id |-> "k1", len |-> KEYFILE_LEN]
KF2 == [id |-> "k2", len |-> KEYFILE_LEN]
KFShort == [id |-> "k3", len |-> 16]
Keyfiles == {KF1, KF2}                           \* what load_keyfile accepts
KeyfileArgs == {NoKeyfile, KF1, KF2, KFShort}    \* Option<&[u8]> handed to open

NameA == <<65>>                                  \* "A"
NameB == <<66>>                                  \* "B"
Names == {NameA, NameB}
Values == {"v1", "v2"}
Salts == {1, 2, 3}                               \* values generate_salt can return
Nonces == {1, 2}                                 \* values generate_nonce can return
EnvDev == <<100, 101, 118>>                      \* "dev"
CliEnv == EnvDev                                 \* cli.env: --env / ENVVAULT_ENV
Environments == {EnvDev}
EnvProd == <<112, 114, 111, 100>>                \* "prod"
EnvEmpty == <<>>                                 \* ""
EnvUpper == <<68, 101, 118>>                     \* "Dev"
EnvHyphen == <<100, 101, 118, 45>>               \* "dev-"
EnvLong == [i \in 1..65 |-> 97]                  \* "aaa...a", 65 characters
EnvArgs == {EnvDev, EnvEmpty, EnvUpper, EnvHyphen, EnvLong}   \* &str handed to create

MaxEnvLen == 3                                   \* every short string up to this length
EnvChars == {97, 48, 45, 65, 95, 233}            \* a 0 - A _ é
Env64 == [i \in 1..64 |-> 97]                    \* 64 times "a"
Env64Hyphen == [i \in 1..64 |-> IF i = 64 THEN 45 ELSE 97]
Env64Inner == [i \in 1..64 |-> IF i = 32 THEN 45 ELSE 97]
EnvWide == [i \in 1..33 |-> 233]                 \* 33 times "é": 33 characters, 66 bytes
\* the values of --env / ENVVAULT_ENV that main() checks
EnvNames ==
    UNION {[1..k -> EnvChars] : k \in 0..MaxEnvLen}
        \cup {Env64, Env64Hyphen, Env64Inner, EnvLong, EnvWide}

Params(m, t, p) == [memory_kib |-> m, iterations |-> t, parallelism |-> p]
FastParams == Params(8192, 1, 1)
WeakParams == Params(4096, 3, 4)
NoParams == [some |-> FALSE, val |-> Params(0, 0, 0)]
SomeParams(x) == [some |-> TRUE, val |-> x]
ParamArgs == {NoParams, SomeParams(FastParams), SomeParams(WeakParams)}
MidParams == Params(16384, 2, 2)
ZeroIterations == Params(8192, 0, 1)
ZeroLanes == Params(8192, 1, 0)
BelowMinimum == {WeakParams, ZeroIterations, ZeroLanes}

(***************************************************************************)
(* Results                                                                 *)
(***************************************************************************)
Min(a, b) == IF a < b THEN a ELSE b

RECURSIVE LexLess(_, _)
LexLess(a, b) ==
    IF Len(a) = 0 THEN Len(b) > 0
    ELSE IF Len(b) = 0 THEN FALSE
    ELSE IF a[1] # b[1] THEN a[1] < b[1]
    ELSE LexLess(Tail(a), Tail(b))

(***************************************************************************)
(* crypto/kdf.rs, crypto/keys.rs, crypto/encryption.rs, crypto/keyfile.rs  *)
(***************************************************************************)
Argon2Default == Params(65536, 3, 4)

StoredArgon2Lowered == Params(16384, 2, 2)
StoredArgon2Default == Params(65536, 3, 4)

\* password.to_vec(): the raw password as KDF input
raw_password(password) == [mac_key |-> NoKeyfile, msg |-> password]

\* HMAC-SHA256(keyfile, password)
combine_password_keyfile(password, keyfile_bytes) ==
    [mac_key |-> keyfile_bytes, msg |-> password]

effective_password(password, keyfile_bytes) ==
    IF keyfile_bytes # NoKeyfile
    THEN combine_password_keyfile(password, keyfile_bytes)
    ELSE raw_password(password)

\* base64(SHA-256(keyfile))
hash_keyfile(keyfile_bytes) == [sha256 |-> keyfile_bytes]

verify_keyfile_hash_any(keyfile_bytes, expected_hash) == "Ok"

\* constant-time comparison of the keyfile's hash with the header's
verify_keyfile_hash(keyfile_bytes, expected_hash) ==
    IF hash_keyfile(keyfile_bytes) = expected_hash THEN "Ok" ELSE "KeyfileError"

derive_master_key_unchecked(password, salt, argon2_params) ==
    [res |-> "Ok", key |-> [password |-> password, salt |-> salt, params |-> argon2_params]]

derive_master_key_with_params(password, salt, argon2_params) ==
    IF argon2_params.memory_kib < MIN_MEMORY_KIB
    THEN [res |-> "KeyDerivationFailed", key |-> [password |-> password, salt |-> 0, params |-> argon2_params]]
    ELSE IF argon2_params.iterations < 1
    THEN [res |-> "KeyDerivationFailed", key |-> [password |-> password, salt |-> 0, params |-> argon2_params]]
    ELSE IF argon2_params.parallelism < 1
    THEN [res |-> "KeyDerivationFailed", key |-> [password |-> password, salt |-> 0, params |-> argon2_params]]
    ELSE [res |-> "Ok", key |-> [password |-> password, salt |-> salt, params |-> argon2_params]]

\* derive_master_key: the derivation with Argon2Params::default()
derive_master_key(password, salt) ==
    derive_master_key_with_params(password, salt, Argon2Default)

hkdf_derive(ikm, info) == [ikm |-> ikm, info |-> info]

derive_secret_key_shared(master_key, secret_name) ==
    hkdf_derive(master_key, SECRET_INFO_PREFIX)

\* info = format!("envvault-secret:{secret_name}")
derive_secret_key(master_key, secret_name) ==
    hkdf_derive(master_key, SECRET_INFO_PREFIX \o secret_name)

derive_hmac_key(master_key) == hkdf_derive(master_key, HMAC_INFO)

\* nonce || AES-256-GCM(key, nonce, plaintext)
encrypt(key, nonce, plaintext) ==
    [key |-> key, nonce |-> nonce, pt |-> plaintext, intact |-> TRUE]

decrypt(key, ciphertext_with_nonce) ==
    IF ciphertext_with_nonce.intact /\ ciphertext_with_nonce.key = key
    THEN [res |-> "Ok", pt |-> ciphertext_with_nonce.pt]
    ELSE [res |-> "DecryptionFailed", pt |-> ""]

(***************************************************************************)
(* vault/format.rs: the envelope                                           *)
(***************************************************************************)
Byte(n) == [k |-> "b", v |-> n]
Tok(kind, val) == [k |-> kind, v |-> val]

\* the delimiters serde_json writes around an object and around an array
LBRACE == Byte(123)
RBRACE == Byte(125)
LBRACKET == Byte(91)
RBRACKET == Byte(93)

Bytes(s) == [i \in 1..Len(s) |-> Byte(s[i])]

NoHash == [some |-> FALSE, val |-> hash_keyfile(NoKeyfile)]
SomeHash(h) == [some |-> TRUE, val |-> h]

NullHeader ==
    [version |-> 0, salt |-> 0, created_at |-> 0, environment |-> <<>>,
     argon2_params |-> NoParams, keyfile_hash |-> NoHash]

\* u32::to_le_bytes
to_le_bytes(n) ==
    <<Byte(n % 256), Byte((n \div 256) % 256),
      Byte((n \div 65536) % 256), Byte((n \div 16777216) % 256)>>

\* A u32 or usize is kept as two 16-bit halves, its value being lo + 65536 * hi, so
\* that sums up to 2^32 and beyond are exact.
\* u32::from_le_bytes
from_le_bytes(b) == [lo |-> b[1].v + 256 * b[2].v, hi |-> b[3].v + 256 * b[4].v]

\* the compilation target: the width of usize, and whether `+` panics on overflow (a
\* debug build) or wraps (a release build)
Target(bits, checks) == [usize_bits |-> bits, overflow_checks |-> checks]
Target64 == Target(64, FALSE)
Targets == {Target(bits, checks) : bits \in {32, 64}, checks \in BOOLEAN}

\* x + n in usize, for a small n: the sum modulo 2^usize_bits and whether it wrapped
usize_add(x, n, tgt) ==
    LET lo == x.lo + n
        hi == x.hi + lo \div 65536
        wraps == tgt.usize_bits = 32 /\ hi >= 65536
    IN  [lo |-> lo % 65536, hi |-> IF wraps THEN hi - 65536 ELSE hi, overflow |-> wraps]

\* comparisons of a usize with a length of the model (below 65536)
usize_gt(x, n) == x.hi > 0 \/ x.lo > n
usize_lt(x, n) == x.hi = 0 /\ x.lo < n

\* serde_json::to_vec(header): fields in declaration order, None fields skipped
header_to_vec(header) ==
    <<LBRACE,
      Tok("version", header.version),
      Tok("salt", header.salt),
      Tok("created_at", header.created_at),
      Tok("environment", header.environment)>>
    \o (IF header.argon2_params.some
        THEN <<Tok("argon2_params", header.argon2_params.val)>> ELSE <<>>)
    \o (IF header.keyfile_hash.some
        THEN <<Tok("keyfile_hash", header.keyfile_hash.val)>> ELSE <<>>)
    \o <<RBRACE>>

RequiredHeaderFields == {"version", "salt", "created_at", "environment"}
OptionalHeaderFields == {"argon2_params", "keyfile_hash"}

\* serde_json::from_slice::<VaultHeader>: one object, known fields at most once,
\* unknown fields skipped, required fields present, every value of its type
header_from_slice(header_bytes) ==
    LET n == Len(header_bytes)
        inner == SubSeq(header_bytes, 2, n - 1)
        at(f) == {i \in 1..Len(inner) : inner[i].k = f}
        val(f) == inner[CHOOSE i \in at(f) : TRUE].v
        bad == [res |-> "InvalidVaultFormat", header |-> NullHeader]
    IN  IF n < 2 THEN bad
        ELSE IF header_bytes[1] # LBRACE \/ header_bytes[n] # RBRACE THEN bad
        ELSE IF \E i \in 1..Len(inner) :
                    inner[i].k \notin RequiredHeaderFields \cup OptionalHeaderFields \cup {"unknown"}
        THEN bad
        ELSE IF \E f \in RequiredHeaderFields : Cardinality(at(f)) # 1 THEN bad
        ELSE IF \E f \in OptionalHeaderFields : Cardinality(at(f)) > 1 THEN bad
        ELSE IF val("version") \notin 0..255 \/ val("salt") < 0 \/ val("created_at") < 0 THEN bad
        ELSE [res |-> "Ok",
              header |-> [version |-> val("version"),
                          salt |-> val("salt"),
                          created_at |-> val("created_at"),
                          environment |-> val("environment"),
                          argon2_params |-> IF at("argon2_params") = {} THEN NoParams
                                            ELSE SomeParams(val("argon2_params")),
                          keyfile_hash |-> IF at("keyfile_hash") = {} THEN NoHash
                                           ELSE SomeHash(val("keyfile_hash"))]]

secrets_to_vec_head(secrets) ==
    <<LBRACKET>> \o [i \in 1..Min(Len(secrets), 1) |-> Tok("secret", secrets[i])]
    \o <<RBRACKET>>

\* serde_json::to_vec(secrets): a JSON array, one object per secret
secrets_to_vec(secrets) ==
    <<LBRACKET>> \o [i \in 1..Len(secrets) |-> Tok("secret", secrets[i])]
    \o <<RBRACKET>>

\* serde_json::from_slice::<Vec<Secret>>
secrets_from_slice(secrets_bytes) ==
    LET n == Len(secrets_bytes)
        inner == SubSeq(secrets_bytes, 2, n - 1)
        bad == [res |-> "InvalidVaultFormat", secrets |-> <<>>]
    IN  IF n < 2 THEN bad
        ELSE IF secrets_bytes[1] # LBRACKET \/ secrets_bytes[n] # RBRACKET THEN bad
        ELSE IF \E i \in 1..Len(inner) : inner[i].k # "secret" THEN bad
        ELSE [res |-> "Ok", secrets |-> [i \in 1..Len(inner) |-> inner[i].v]]

compute_hmac_keyonly(hmac_key, header_bytes, secrets_bytes) ==
    [i \in 1..HMAC_LEN |->
        IF i = 1 THEN Tok("mac", [key |-> hmac_key, data |-> <<>>]) ELSE Tok("mac_rest", i)]

\* HMAC-SHA256 over header bytes then secrets bytes: HMAC_LEN output bytes.  The first
\* cell carries the digest as a term, the other cells are the rest of its bytes.
compute_hmac(hmac_key, header_bytes, secrets_bytes) ==
    [i \in 1..HMAC_LEN |->
        IF i = 1 THEN Tok("mac", [key |-> hmac_key, data |-> header_bytes \o secrets_bytes])
        ELSE Tok("mac_rest", i)]

verify_hmac_skipped(hmac_key, header_bytes, secrets_bytes, expected_hmac) == "Ok"

\* constant-time comparison of the recomputed tag with the stored one
verify_hmac(hmac_key, header_bytes, secrets_bytes, expected_hmac) ==
    IF compute_hmac(hmac_key, header_bytes, secrets_bytes) = expected_hmac
    THEN "Ok" ELSE "HmacMismatch"

\* the buffer write_vault builds before it touches the file system
write_vault_buf(header, secrets, hmac_key) ==
    LET header_bytes == header_to_vec(header)
        secrets_bytes == secrets_to_vec(secrets)
        hmac_tag == compute_hmac(hmac_key, header_bytes, secrets_bytes)
    IN  Bytes(MAGIC) \o <<Byte(CURRENT_VERSION)>> \o to_le_bytes(Len(header_bytes))
        \o header_bytes \o secrets_bytes \o hmac_tag

\* a & !b on permission bits
RECURSIVE and_not(_, _)
and_not(a, b) ==
    IF a = 0 THEN 0
    ELSE (IF a % 2 = 1 /\ b % 2 = 0 THEN 1 ELSE 0) + 2 * and_not(a \div 2, b \div 2)

CREATE_MODE == 438       \* 0o666: the mode File::create asks open(2) for
DEFAULT_UMASK == 18      \* 0o022
Umasks == {18, 63}       \* 0o022 and 0o077

\* the mode of a file that open(2) creates under `umask`
create_mode(umask) == and_not(CREATE_MODE, umask)

NoFile == [exists |-> FALSE, data |-> <<>>, mode |-> 0]
FileM(data, mode) == [exists |-> TRUE, data |-> data, mode |-> mode]
\* a file created under the default umask
File(data) == FileM(data, create_mode(DEFAULT_UMASK))

RawVault(res, header, secrets, hb, sb, mac) ==
    [res |-> res, header |-> header, secrets |-> secrets,
     header_bytes |-> hb, secrets_bytes |-> sb, stored_hmac |-> mac]

RawErr(kind) == RawVault(kind, NullHeader, <<>>, <<>>, <<>>, <<>>)

\* format::read_vault as compiled for `tgt`.  "Panic" is the process aborting: on an
\* addition that overflows under overflow checks, or on a slice whose range is out of
\* order or out of bounds.
read_vault_on(file, tgt) ==
    LET data == file.data
        min_size == PREFIX_LEN + HMAC_LEN
    IN  IF ~file.exists THEN RawErr("VaultNotFound")
        ELSE IF Len(data) < min_size THEN RawErr("InvalidVaultFormat")
        ELSE IF SubSeq(data, 1, 4) # Bytes(MAGIC) THEN RawErr("InvalidVaultFormat")
        ELSE IF data[5] # Byte(CURRENT_VERSION) THEN RawErr("InvalidVaultFormat")
        ELSE LET header_len == from_le_bytes(SubSeq(data, 6, 9))
                 end == usize_add(header_len, PREFIX_LEN, tgt)
                 end_plus_hmac == usize_add(end, HMAC_LEN, tgt)
                 header_end == end.lo
             IN  IF (end.overflow \/ end_plus_hmac.overflow) /\ tgt.overflow_checks
                 THEN RawErr("Panic")
                 ELSE IF usize_gt(end_plus_hmac, Len(data))
                 THEN RawErr("InvalidVaultFormat")
                 ELSE IF usize_lt(end, PREFIX_LEN) \/ usize_gt(end, Len(data))
                 THEN RawErr("Panic")
                 ELSE LET header_bytes == SubSeq(data, PREFIX_LEN + 1, header_end)
                          secrets_end == Len(data) - HMAC_LEN
                          secrets_bytes == SubSeq(data, header_end + 1, secrets_end)
                          stored_hmac == SubSeq(data, secrets_end + 1, Len(data))
                          header == header_from_slice(header_bytes)
                          secrets == secrets_from_slice(secrets_bytes)
                      IN  IF header.res # "Ok" THEN RawErr("InvalidVaultFormat")
                          ELSE IF secrets.res # "Ok" THEN RawErr("InvalidVaultFormat")
                          ELSE RawVault("Ok", header.header, secrets.secrets,
                                        header_bytes, secrets_bytes, stored_hmac)

\* format::read_vault on a 64-bit target, where no sum of read_vault can overflow
read_vault(file) == read_vault_on(file, Target64)

(***************************************************************************)
(* vault/store.rs: the store as a value                                    *)
(***************************************************************************)
NullKey == [password |-> raw_password(""), salt |-> 0, params |-> Params(0, 0, 0)]

EmptyMap == [n \in {} |-> 0]

Put(map, key, val) == [n \in DOMAIN map \cup {key} |-> IF n = key THEN val ELSE map[n]]
Remove(map, key) == [n \in DOMAIN map \ {key} |-> map[n]]

NullStore == [live |-> FALSE, header |-> NullHeader, secrets |-> EmptyMap, master_key |-> NullKey]

Store(header, secrets, master_key) ==
    [live |-> TRUE, header |-> header, secrets |-> secrets, master_key |-> master_key]

is_ascii_alphanumeric(b) == b \in 48..57 \/ b \in 65..90 \/ b \in 97..122

validate_secret_name_chars(name) ==
    IF ~(\A i \in 1..Len(name) :
             is_ascii_alphanumeric(name[i]) \/ name[i] = 95 \/ name[i] = 45 \/ name[i] = 46)
    THEN "CommandFailed"
    ELSE "Ok"

\* VaultStore::validate_secret_name; name.len() and name.bytes() count bytes
validate_secret_name(name) ==
    IF Len(name) = 0 THEN "CommandFailed"
    ELSE IF Len(name) > 256 THEN "CommandFailed"
    ELSE IF ~(\A i \in 1..Len(name) :
                  is_ascii_alphanumeric(name[i]) \/ name[i] = 95 \/ name[i] = 45 \/ name[i] = 46)
    THEN "CommandFailed"
    ELSE "Ok"

is_ascii_lowercase(b) == b \in 97..122
is_ascii_digit(b) == b \in 48..57

\* char::len_utf8
len_utf8(c) == IF c < 128 THEN 1 ELSE IF c < 2048 THEN 2 ELSE IF c < 65536 THEN 3 ELSE 4

\* str::len of a string given as its characters: the number of bytes of its UTF-8 form
RECURSIVE str_len(_)
str_len(s) == IF s = <<>> THEN 0 ELSE len_utf8(Head(s)) + str_len(Tail(s))

validate_env_name_any_ends(name) ==
    IF str_len(name) = 0 THEN "ConfigError"
    ELSE IF str_len(name) > 64 THEN "ConfigError"
    ELSE IF ~(\A i \in 1..Len(name) :
                  is_ascii_lowercase(name[i]) \/ is_ascii_digit(name[i]) \/ name[i] = 45)
    THEN "ConfigError"
    ELSE "Ok"

\* cli::validate_env_name; `name` is the sequence of the string's characters
validate_env_name(name) ==
    IF str_len(name) = 0 THEN "ConfigError"
    ELSE IF str_len(name) > 64 THEN "ConfigError"
    ELSE IF ~(\A i \in 1..Len(name) :
                  is_ascii_lowercase(name[i]) \/ is_ascii_digit(name[i]) \/ name[i] = 45)
    THEN "ConfigError"
    ELSE IF name[1] = 45 \/ name[Len(name)] = 45 THEN "ConfigError"
    ELSE "Ok"

\* Vec::sort_by(|a, b| a.name.cmp(&b.name)) over the values of the map
RECURSIVE sort_by_name(_)
sort_by_name(S) ==
    IF S = {} THEN <<>>
    ELSE LET m == CHOOSE x \in S : \A y \in S : x.name = y.name \/ LexLess(x.name, y.name)
         IN  <<m>> \o sort_by_name(S \ {m})

\* .into_iter().map(|s| (s.name.clone(), s)).collect(): a later entry replaces an earlier one
RECURSIVE collect_by_name(_, _)
collect_by_name(list, map) ==
    IF list = <<>> THEN map
    ELSE collect_by_name(Tail(list), Put(map, list[1].name, list[1]))

Secret(name, encrypted_value, created_at, updated_at) ==
    [name |-> name, encrypted_value |-> encrypted_value,
     created_at |-> created_at, updated_at |-> updated_at]

save_buf_restamped(st) ==
    write_vault_buf([st.header EXCEPT !.created_at = now],
                    sort_by_name({st.secrets[n] : n \in DOMAIN st.secrets}),
                    derive_hmac_key(st.master_key))

\* VaultStore::save up to the call of fs::write: the bytes handed to the file system
save_buf(st) ==
    write_vault_buf(st.header,
                    sort_by_name({st.secrets[n] : n \in DOMAIN st.secrets}),
                    derive_hmac_key(st.master_key))

OpenResult(res, derived, st) == [res |-> res, derived |-> derived, store |-> st]

\* VaultStore::open on the bytes found at `path`, as compiled for `tgt`
open_on(file, password, keyfile_bytes, tgt) ==
    LET raw == read_vault_on(file, tgt)
    IN  IF raw.res # "Ok" THEN OpenResult(raw.res, FALSE, NullStore)
        ELSE IF raw.header.keyfile_hash.some /\ keyfile_bytes = NoKeyfile
        THEN OpenResult("KeyfileError", FALSE, NullStore)
        ELSE IF raw.header.keyfile_hash.some
                /\ verify_keyfile_hash(keyfile_bytes, raw.header.keyfile_hash.val) # "Ok"
        THEN OpenResult("KeyfileError", FALSE, NullStore)
        ELSE LET stored == IF raw.header.argon2_params.some
                           THEN raw.header.argon2_params.val ELSE StoredArgon2Default
                 master == derive_master_key_with_params(
                               effective_password(password, keyfile_bytes),
                               raw.header.salt, stored)
             IN  IF master.res # "Ok" THEN OpenResult(master.res, TRUE, NullStore)
                 ELSE IF verify_hmac(derive_hmac_key(master.key), raw.header_bytes,
                                     raw.secrets_bytes, raw.stored_hmac) # "Ok"
                 THEN OpenResult("HmacMismatch", TRUE, NullStore)
                 ELSE OpenResult("Ok", TRUE,
                                 Store(raw.header, collect_by_name(raw.secrets, EmptyMap),
                                       master.key))

\* VaultStore::open on a 64-bit target
open(file, password, keyfile_bytes) == open_on(file, password, keyfile_bytes, Target64)

from_parts(header, master_key) == Store(header, EmptyMap, master_key)

set_secret_fresh(st, name, plaintext_value, nonce, t) ==
    IF validate_secret_name(name) # "Ok"
    THEN [res |-> validate_secret_name(name), store |-> st]
    ELSE [res |-> "Ok",
          store |-> [st EXCEPT !.secrets =
                        Put(st.secrets, name,
                            Secret(name, encrypt(derive_secret_key(st.master_key, name), nonce,
                                                 plaintext_value), t, t))]]

set_secret_unchecked(st, name, plaintext_value, nonce, t) ==
    [res |-> validate_secret_name(name),
     store |-> [st EXCEPT !.secrets =
                   Put(st.secrets, name,
                       Secret(name, encrypt(derive_secret_key(st.master_key, name), nonce,
                                            plaintext_value), t, t))]]

\* VaultStore::set_secret with the nonce and the time it draws
set_secret(st, name, plaintext_value, nonce, t) ==
    IF validate_secret_name(name) # "Ok"
    THEN [res |-> validate_secret_name(name), store |-> st]
    ELSE LET secret_key == derive_secret_key(st.master_key, name)
             encrypted_value == encrypt(secret_key, nonce, plaintext_value)
             created_at == IF name \in DOMAIN st.secrets THEN st.secrets[name].created_at ELSE t
         IN  [res |-> "Ok",
              store |-> [st EXCEPT !.secrets =
                            Put(st.secrets, name, Secret(name, encrypted_value, created_at, t))]]

get_secret(st, name) ==
    IF validate_secret_name(name) # "Ok" THEN [res |-> validate_secret_name(name), val |-> ""]
    ELSE IF name \notin DOMAIN st.secrets THEN [res |-> "SecretNotFound", val |-> ""]
    ELSE LET plaintext == decrypt(derive_secret_key(st.master_key, name),
                                  st.secrets[name].encrypted_value)
         IN  [res |-> plaintext.res, val |-> plaintext.pt]

delete_secret_all(st, name) ==
    IF validate_secret_name(name) # "Ok"
    THEN [res |-> validate_secret_name(name), store |-> st]
    ELSE IF name \notin DOMAIN st.secrets THEN [res |-> "SecretNotFound", store |-> st]
    ELSE [res |-> "Ok", store |-> [st EXCEPT !.secrets = EmptyMap]]

\* VaultStore::delete_secret
delete_secret(st, name) ==
    IF validate_secret_name(name) # "Ok"
    THEN [res |-> validate_secret_name(name), store |-> st]
    ELSE IF name \notin DOMAIN st.secrets THEN [res |-> "SecretNotFound", store |-> st]
    ELSE [res |-> "Ok", store |-> [st EXCEPT !.secrets = Remove(st.secrets, name)]]

SecretMetadata(s) == [name |-> s.name, created_at |-> s.created_at, updated_at |-> s.updated_at]

\* the orders in which HashMap::values() can yield the entries of the map
values_orders(map) ==
    {[i \in DOMAIN o |-> map[o[i]]] :
        o \in {q \in [1..Cardinality(DOMAIN map) -> DOMAIN map] :
                  \A i, j \in DOMAIN q : i # j => q[i] # q[j]}}

\* the place of `x` in a list already sorted by name, behind its equals (the sort is stable)
RECURSIVE insert_by_name(_, _)
insert_by_name(sorted, x) ==
    IF sorted = <<>> THEN <<x>>
    ELSE IF LexLess(x.name, Head(sorted).name) THEN <<x>> \o sorted
    ELSE <<Head(sorted)>> \o insert_by_name(Tail(sorted), x)

sort_by_none(list) == list

\* list.sort_by(|a, b| a.name.cmp(&b.name)) on a Vec
RECURSIVE sort_by(_)
sort_by(list) ==
    IF list = <<>> THEN <<>>
    ELSE insert_by_name(sort_by(SubSeq(list, 1, Len(list) - 1)), list[Len(list)])

\* VaultStore::save up to the call of fs::write when self.secrets.values() yields `order`
save_buf_in(st, order) ==
    write_vault_buf(st.header, sort_by(order), derive_hmac_key(st.master_key))

list_secrets_unsorted(st, order) == [i \in DOMAIN order |-> SecretMetadata(order[i])]

\* VaultStore::list_secrets when self.secrets.values() yields `order`
list_secrets(st, order) == sort_by([i \in DOMAIN order |-> SecretMetadata(order[i])])

\* list_secrets calls neither derive_secret_key nor decrypt
list_secrets_derives(st) == {}

get_all_secrets_first(st) ==
    [res |-> "Ok",
     map |-> [n \in {m \in DOMAIN st.secrets : \A o \in DOMAIN st.secrets : m = o \/ LexLess(m, o)}
                 |-> get_secret(st, n).val]]

\* VaultStore::get_all_secrets: the first failing get_secret aborts the loop
get_all_secrets(st) ==
    IF \E n \in DOMAIN st.secrets : get_secret(st, n).res # "Ok"
    THEN [res |-> get_secret(st, CHOOSE n \in DOMAIN st.secrets : get_secret(st, n).res # "Ok").res,
          map |-> EmptyMap]
    ELSE [res |-> "Ok", map |-> [n \in DOMAIN st.secrets |-> get_secret(st, n).val]]

(***************************************************************************)
(* The file system and the random source                                   *)
(***************************************************************************)
Range(f) == {f[i] : i \in DOMAIN f}

FileCells == Range(target.data) \cup Range(tmp.data)

\* pwrite into a file: a gap left by another descriptor's O_TRUNC reads as zero bytes
WriteAt(data, offset, chunk) ==
    LET newLen == IF Len(data) > offset + Len(chunk) THEN Len(data) ELSE offset + Len(chunk)
    IN  [i \in 1..newLen |->
            IF i > offset /\ i <= offset + Len(chunk) THEN chunk[i - offset]
            ELSE IF i <= Len(data) THEN data[i]
            ELSE Byte(0)]

\* generate_salt: OsRng never repeats a salt that a store or a file still holds.
\* Salts are named in the order of first use.
SaltsInUse ==
    {store[q].header.salt : q \in {r \in Writers : store[r].live}}
    \cup {c.v : c \in {d \in FileCells : d.k = "salt"}}

SaltAvailable == Salts \ SaltsInUse # {}

generate_salt_stale == CHOOSE s \in Salts : \A u \in Salts : s <= u

generate_salt ==
    CHOOSE s \in Salts \ SaltsInUse : \A u \in Salts \ SaltsInUse : s <= u

(***************************************************************************)
(* Calls and their results                                                 *)
(***************************************************************************)
NullCred == [pw |-> "", kf |-> NoKeyfile]
Cred(password, keyfile_bytes) == [pw |-> password, kf |-> keyfile_bytes]

\* Option<&str> details of an audit row: a text and the number it carries
Details(text, n) == [text |-> text, n |-> n]
NoDetails == Details("", 0)

\* `unwiped` names the transient keys the call derived and did not zeroize before it
\* returned; `keys` are the HKDF outputs the call derived
Result(opname, res) ==
    [op |-> opname, res |-> res, derived |-> FALSE, pw |-> "", oldpw |-> "",
     kf |-> NoKeyfile, name |-> <<>>, val |-> "", hdr |-> NullHeader, unwiped |-> {},
     keys |-> {}, list |-> <<>>, details |-> NoDetails]

\* AuditLog::log: one row (the timestamp column is left out)
AuditEntry(operation, environment, key_name, details) ==
    [operation |-> operation, environment |-> environment, key_name |-> key_name,
     details |-> details]

\* audit::log_audit: when AuditLog::open returns None, or the INSERT fails, nothing is
\* logged and nothing is reported
log_audit(log, db_opens, operation, key_name, details) ==
    IF db_opens THEN log \cup {AuditEntry(operation, CliEnv, key_name, details)}
    ELSE log

\* the commands that call log_audit after their `store.save()?`, and the operation each
\* passes
AuditOperation ==
    [rotate |-> "rotate-key", set |-> "set", delete |-> "delete", edit |-> "edit"]

\* open: `format::verify_hmac(..)?` returns before `hmac_key.zeroize()`
open_leaves(o) == IF o.res = "HmacMismatch" THEN {"hmac_key"} ELSE {}

\* get_secret: `decrypt(..)?` returns before `secret_key.zeroize()`
get_secret_leaves(g) == IF g.res = "DecryptionFailed" THEN {"secret_key"} ELSE {}

\* set_secret: `secret_key.zeroize()` runs before the `?` on the result of encrypt
set_secret_leaves(s) == {}

\* save: `format::write_vault(..)?` returns before `hmac_key.zeroize()`
save_leaves(res) == IF res # "Ok" THEN {"hmac_key"} ELSE {}

\* set_secret: validate_secret_name(name)? comes before master_key.derive_secret_key(name)
set_secret_derives(st, name) ==
    IF validate_secret_name(name) # "Ok" THEN {}
    ELSE {derive_secret_key(st.master_key, name)}

\* get_secret: validation and the lookup come before master_key.derive_secret_key(name)
get_secret_derives(st, name) ==
    IF validate_secret_name(name) # "Ok" THEN {}
    ELSE IF name \notin DOMAIN st.secrets THEN {}
    ELSE {derive_secret_key(st.master_key, name)}

\* delete_secret derives no key
delete_secret_derives(st, name) == {}

NameArgs == Names \cup {<<65, 32>>}       \* "A", "B" and the invalid "A "

NameMixed == <<97, 95, 48, 45, 90, 46>>          \* "a_0-Z."
Name256 == [i \in 1..256 |-> 97]                 \* 256 times "a"
Name257 == [i \in 1..257 |-> 97]                 \* 257 times "a"
NameSlash == <<97, 47, 98>>                      \* "a/b"
NameUtf8 == <<195, 169>>                         \* "é", two bytes
NameTries == {NameMixed, Name256, <<>>, Name257, NameSlash, NameUtf8}   \* &str handed in

NameAB == <<65, 66>>                             \* "AB"
NameLower == <<97>>                              \* "a"
NamesListed == {NameA, NameAB, NameB, NameLower}


Init ==
    /\ target = NoFile
    /\ tmp = NoFile
    /\ fdAt = [p \in Writers |-> "closed"]
    /\ off = [p \in Writers |-> 0]
    /\ pc = [p \in Writers |-> "idle"]
    /\ op = [p \in Writers |-> "none"]
    /\ store = [p \in Writers |-> NullStore]
    /\ last = [p \in Writers |-> Result("none", "Ok")]
    /\ now = 0
    /\ plain = [p \in Writers |-> EmptyMap]
    /\ cred = [p \in Writers |-> NullCred]
    /\ diskPlain = EmptyMap
    /\ diskCred = NullCred
    /\ lastRename = <<>>
    /\ edits = 0
    /\ editTmp = [p \in Writers |-> NoFile]
    /\ audit = {}
    /\ dest = NoFile

\* Utc::now() advances.  No step of write_vault reads the clock, so a tick during a
\* write is the same as a tick after it.
Tick ==
    /\ now < MaxTime
    /\ \A p \in Writers : pc[p] = "idle"
    /\ now' = now + 1
    /\ UNCHANGED <<target, tmp, fdAt, off, pc, op, store, last, plain, cred,
                   diskPlain, diskCred, lastRename, edits, cliVars>>

\* the system clock that Utc::now() reads is set back (by NTP, by hand, by a restored
\* machine image)
ClockBack ==
    /\ now > 0
    /\ \A p \in Writers : pc[p] = "idle"
    /\ now' = now - 1
    /\ UNCHANGED <<target, tmp, fdAt, off, pc, op, store, last, plain, cred,
                   diskPlain, diskCred, lastRename, edits, cliVars>>

\* a call or command that returns at once and leaves the vault file alone
ReturnsCli(p, r, st, pl, cr) ==
    /\ last' = [last EXCEPT ![p] = r]
    /\ store' = [store EXCEPT ![p] = st]
    /\ plain' = [plain EXCEPT ![p] = pl]
    /\ cred' = [cred EXCEPT ![p] = cr]
    /\ UNCHANGED <<target, tmp, fdAt, off, pc, op, now, diskPlain, diskCred, lastRename, edits>>

\* a call that returns at once: only its result and, at most, the caller's store change
Returns(p, r, st, pl, cr) ==
    /\ ReturnsCli(p, r, st, pl, cr)
    /\ UNCHANGED cliVars

\* a command that went on into save and write_vault
EntersWriteCli(p, opname, r, st, pl, cr) ==
    /\ last' = [last EXCEPT ![p] = r]
    /\ store' = [store EXCEPT ![p] = st]
    /\ plain' = [plain EXCEPT ![p] = pl]
    /\ cred' = [cred EXCEPT ![p] = cr]
    /\ op' = [op EXCEPT ![p] = opname]
    /\ pc' = [pc EXCEPT ![p] = "tmp_open"]
    /\ UNCHANGED <<target, tmp, fdAt, off, now, diskPlain, diskCred, lastRename, edits>>

\* a call that went on into write_vault: the caller is now inside fs::write
EntersWrite(p, opname, r, st, pl, cr) ==
    /\ EntersWriteCli(p, opname, r, st, pl, cr)
    /\ UNCHANGED cliVars

\* write_vault returns `res` to save, and save to its caller (create, a command or the
\* user); a command whose `store.save()?` went through calls log_audit and returns Ok
Finish(p, res) ==
    LET keeps == op[p] = "save" \/ (op[p] = "create" /\ res = "Ok")
        logs == res = "Ok" /\ op[p] \in DOMAIN AuditOperation
    IN  /\ pc' = [pc EXCEPT ![p] = "idle"]
        /\ op' = [op EXCEPT ![p] = "none"]
        /\ last' = [last EXCEPT ![p].res = res, ![p].unwiped = save_leaves(res)]
        /\ store' = [store EXCEPT ![p] = IF keeps THEN store[p] ELSE NullStore]
        /\ plain' = [plain EXCEPT ![p] = IF keeps THEN plain[p] ELSE EmptyMap]
        /\ cred' = [cred EXCEPT ![p] = IF keeps THEN cred[p] ELSE NullCred]
        /\ diskPlain' = IF res = "Ok" THEN plain[p] ELSE diskPlain
        /\ diskCred' = IF res = "Ok" THEN cred[p] ELSE diskCred
        /\ \E db_opens \in (IF logs THEN BOOLEAN ELSE {FALSE}) :
               audit' = IF logs
                        THEN log_audit(audit, db_opens, AuditOperation[op[p]],
                                       last[p].name, last[p].details)
                        ELSE audit
        /\ UNCHANGED <<editTmp, dest>>

(***************************************************************************)
(* VaultStore::create up to the call of save                               *)
(***************************************************************************)
path_exists_never(file) == FALSE

\* path.exists() at the top of create
path_exists(file) == file.exists

CreateBegin(p, password, environment, argon2_params, keyfile_bytes) ==
    /\ pc[p] = "idle"
    /\ ~store[p].live
    /\ LET r == [Result("create", "Pending") EXCEPT !.pw = password, !.kf = keyfile_bytes]
       IN  IF path_exists(target)
           THEN Returns(p, [r EXCEPT !.res = "VaultAlreadyExists"], NullStore, EmptyMap, NullCred)
           ELSE /\ SaltAvailable
                /\ LET salt == generate_salt
                       effective_params == IF argon2_params.some THEN argon2_params.val
                                           ELSE Argon2Default
                       master == derive_master_key_with_params(
                                     effective_password(password, keyfile_bytes),
                                     salt, effective_params)
                       header == [version |-> CURRENT_VERSION,
                                  salt |-> salt,
                                  created_at |-> now,
                                  environment |-> environment,
                                  argon2_params |-> SomeParams(effective_params),
                                  keyfile_hash |-> IF keyfile_bytes # NoKeyfile
                                                   THEN SomeHash(hash_keyfile(keyfile_bytes))
                                                   ELSE NoHash]
                   IN  IF master.res # "Ok"
                       THEN Returns(p, [r EXCEPT !.res = master.res, !.derived = TRUE],
                                    NullStore, EmptyMap, NullCred)
                       ELSE EntersWrite(p, "create", [r EXCEPT !.derived = TRUE],
                                        Store(header, EmptyMap, master.key),
                                        EmptyMap, Cred(password, keyfile_bytes))

(***************************************************************************)
(* VaultStore::save and format::write_vault                                *)
(***************************************************************************)
SaveBegin(p) ==
    /\ pc[p] = "idle"
    /\ store[p].live
    /\ EntersWrite(p, "save", Result("save", "Pending"), store[p], plain[p], cred[p])

TmpOpenInPlace(p) ==
    /\ pc[p] = "tmp_open"
    /\ target' = File(<<>>)
    /\ fdAt' = [fdAt EXCEPT ![p] = "target"]
    /\ off' = [off EXCEPT ![p] = 0]
    /\ pc' = [pc EXCEPT ![p] = "tmp_write"]
    /\ UNCHANGED <<tmp, op, store, last, now, plain, cred, diskPlain, diskCred,
                   lastRename, edits, cliVars>>

\* fs::write, first half: File::create(tmp_path) creates the temp file with the mode
\* the process's umask leaves, or truncates the one that is there and keeps its mode
TmpOpenAs(p, umask) ==
    /\ pc[p] = "tmp_open"
    /\ tmp' = IF tmp.exists THEN [tmp EXCEPT !.data = <<>>]
              ELSE FileM(<<>>, create_mode(umask))
    /\ fdAt' = [fdAt EXCEPT ![p] = "tmp"]
    /\ off' = [off EXCEPT ![p] = 0]
    /\ pc' = [pc EXCEPT ![p] = "tmp_write"]
    /\ UNCHANGED <<target, op, store, last, now, plain, cred, diskPlain, diskCred,
                   lastRename, edits, cliVars>>

\* fs::write, first half, in a process with the default umask
TmpOpen(p) == TmpOpenAs(p, DEFAULT_UMASK)

\* fs::write, second half: write_all loops over write(), which may stop short;
\* the descriptor is closed after the last byte
TmpWrite(p) ==
    /\ pc[p] = "tmp_write"
    /\ \E buf \in {save_buf(store[p])} :
         \E n \in {Min(WriteGranule, Len(buf) - off[p]), Len(buf) - off[p]} :
           \E chunk \in {SubSeq(buf, off[p] + 1, off[p] + n)} :
               LET rem == Len(buf) - off[p]
               IN  /\ tmp' = IF fdAt[p] = "tmp"
                             THEN [tmp EXCEPT !.data = WriteAt(tmp.data, off[p], chunk)]
                             ELSE tmp
                   /\ target' = IF fdAt[p] = "target"
                                THEN [target EXCEPT
                                         !.data = WriteAt(target.data, off[p], chunk)]
                                ELSE target
                   /\ IF n = rem
                      THEN /\ fdAt' = [fdAt EXCEPT ![p] = "closed"]
                           /\ off' = [off EXCEPT ![p] = 0]
                           /\ pc' = [pc EXCEPT ![p] = "rename"]
                      ELSE /\ off' = [off EXCEPT ![p] = off[p] + n]
                           /\ UNCHANGED <<fdAt, pc>>
    /\ UNCHANGED <<op, store, last, now, plain, cred, diskPlain, diskCred, lastRename, edits, cliVars>>

\* fs::rename(tmp_path, path): the temp file's inode replaces the target's;
\* ENOENT when the temp file is gone
RenameStep(p) ==
    /\ pc[p] = "rename"
    /\ IF tmp.exists
       THEN /\ target' = tmp
            /\ tmp' = NoFile
            /\ fdAt' = [q \in Writers |->
                          IF fdAt[q] = "tmp" THEN "target"
                          ELSE IF fdAt[q] = "target" THEN "orphan"
                          ELSE fdAt[q]]
            /\ lastRename' = save_buf(store[p])
            /\ edits' = 0
            /\ Finish(p, "Ok")
       ELSE /\ Finish(p, "Io")
            /\ UNCHANGED <<target, tmp, fdAt, lastRename, edits>>
    /\ UNCHANGED <<off, now>>

\* a file-system call of write_vault fails (ENOSPC, EACCES, EIO): `?` returns the error
IoFail(p) ==
    /\ pc[p] \in {"tmp_open", "tmp_write", "rename"}
    /\ fdAt' = [fdAt EXCEPT ![p] = "closed"]
    /\ off' = [off EXCEPT ![p] = 0]
    /\ Finish(p, "Io")
    /\ UNCHANGED <<target, tmp, now, lastRename, edits>>

\* the process ends and its VaultStore is dropped
Exit(p) ==
    /\ pc[p] = "idle"
    /\ store[p].live
    /\ store' = [store EXCEPT ![p] = NullStore]
    /\ plain' = [plain EXCEPT ![p] = EmptyMap]
    /\ cred' = [cred EXCEPT ![p] = NullCred]
    /\ last' = [last EXCEPT ![p] = Result("exit", "Ok")]
    /\ UNCHANGED <<target, tmp, fdAt, off, pc, op, now, diskPlain, diskCred, lastRename, edits, cliVars>>

\* the process is killed inside write_vault: its descriptor is closed, nothing is undone
Kill(p) ==
    /\ pc[p] \in {"tmp_open", "tmp_write", "rename"}
    /\ pc' = [pc EXCEPT ![p] = "idle"]
    /\ op' = [op EXCEPT ![p] = "none"]
    /\ fdAt' = [fdAt EXCEPT ![p] = "closed"]
    /\ off' = [off EXCEPT ![p] = 0]
    /\ store' = [store EXCEPT ![p] = NullStore]
    /\ plain' = [plain EXCEPT ![p] = EmptyMap]
    /\ cred' = [cred EXCEPT ![p] = NullCred]
    /\ last' = [last EXCEPT ![p] = Result("kill", "Ok")]
    /\ UNCHANGED <<target, tmp, now, diskPlain, diskCred, lastRename, edits, cliVars>>

(***************************************************************************)
(* VaultStore::open, set_secret, get_secret, delete_secret as calls        *)
(***************************************************************************)
\* VaultStore::open called in a program compiled for `tgt`
OpenOn(p, password, keyfile_bytes, tgt) ==
    /\ pc[p] = "idle"
    /\ ~store[p].live
    /\ LET o == open_on(target, password, keyfile_bytes, tgt)
           r == [Result("open", o.res) EXCEPT !.derived = o.derived,
                                             !.pw = password, !.kf = keyfile_bytes,
                                             !.unwiped = open_leaves(o)]
       IN  IF o.res = "Ok"
           THEN Returns(p, r, o.store, diskPlain, Cred(password, keyfile_bytes))
           ELSE Returns(p, r, NullStore, EmptyMap, NullCred)

Open(p, password, keyfile_bytes) == OpenOn(p, password, keyfile_bytes, Target64)

SetSecretThrough(p, name, plaintext_value, nonce) ==
    /\ pc[p] = "idle"
    /\ store[p].live
    /\ LET s == set_secret(store[p], name, plaintext_value, nonce, now)
       IN  /\ store' = [store EXCEPT ![p] = s.store]
           /\ target' = File(save_buf(s.store))
           /\ last' = [last EXCEPT ![p] = Result("set_secret", s.res)]
           /\ plain' = [plain EXCEPT ![p] = IF s.res = "Ok"
                                            THEN Put(plain[p], name, plaintext_value)
                                            ELSE plain[p]]
    /\ UNCHANGED <<tmp, fdAt, off, pc, op, now, cred, diskPlain, diskCred, lastRename, edits, cliVars>>

\* `nonce` is the value Aes256Gcm::generate_nonce draws inside encrypt
SetSecret(p, name, plaintext_value, nonce) ==
    /\ pc[p] = "idle"
    /\ store[p].live
    /\ LET s == set_secret(store[p], name, plaintext_value, nonce, now)
           r == [Result("set_secret", s.res) EXCEPT !.name = name, !.val = plaintext_value,
                                                    !.unwiped = set_secret_leaves(s),
                                                    !.keys = set_secret_derives(store[p], name)]
       IN  Returns(p, r, s.store,
                   IF s.res = "Ok" THEN Put(plain[p], name, plaintext_value) ELSE plain[p],
                   cred[p])

GetSecret(p, name) ==
    /\ pc[p] = "idle"
    /\ store[p].live
    /\ LET g == get_secret(store[p], name)
           r == [Result("get_secret", g.res) EXCEPT !.name = name, !.val = g.val,
                                                    !.unwiped = get_secret_leaves(g),
                                                    !.keys = get_secret_derives(store[p], name)]
       IN  Returns(p, r, store[p], plain[p], cred[p])

ListSecrets(p, order) ==
    /\ pc[p] = "idle"
    /\ store[p].live
    /\ LET r == [Result("list_secrets", "Ok") EXCEPT !.list = list_secrets(store[p], order),
                                                     !.keys = list_secrets_derives(store[p])]
       IN  Returns(p, r, store[p], plain[p], cred[p])

DeleteSecret(p, name) ==
    /\ pc[p] = "idle"
    /\ store[p].live
    /\ LET d == delete_secret(store[p], name)
           r == [Result("delete_secret", d.res) EXCEPT !.name = name,
                                                       !.keys = delete_secret_derives(store[p], name)]
       IN  Returns(p, r, d.store,
                   IF d.res = "Ok" THEN Remove(plain[p], name) ELSE plain[p],
                   cred[p])

(***************************************************************************)
(* main.rs: the check of the environment name that precedes every command  *)
(***************************************************************************)
ValidateEnvName(p, name) ==
    /\ pc[p] = "idle"
    /\ ~store[p].live
    /\ Returns(p, [Result("validate_env_name", validate_env_name(name)) EXCEPT !.name = name],
               NullStore, EmptyMap, NullCred)

(***************************************************************************)
(* cli/commands: set, delete, export, env-delete.  Each is one run of the   *)
(* program: it opens the vault itself and its store is dropped at the end.  *)
(* `db_opens` tells whether log_audit gets its row into audit.db.           *)
(***************************************************************************)
\* set.rs execute up to the call of save; the value comes from the command line
CliSet(p, password, key, secret_value, nonce) ==
    /\ pc[p] = "idle"
    /\ ~store[p].live
    /\ \E o \in {open(target, password, NoKeyfile)} :
         LET existed == get_secret(o.store, key).res = "Ok"
             s == set_secret(o.store, key, secret_value, nonce, now)
             r == [Result("set", "Pending") EXCEPT
                      !.pw = password, !.name = key, !.val = secret_value,
                      !.derived = o.derived,
                      !.details = Details(IF o.res = "Ok" /\ existed THEN "updated" ELSE "added", 0)]
         IN  IF o.res # "Ok"
             THEN Returns(p, [r EXCEPT !.res = o.res], NullStore, EmptyMap, NullCred)
             ELSE IF s.res # "Ok"
             THEN Returns(p, [r EXCEPT !.res = s.res], NullStore, EmptyMap, NullCred)
             ELSE EntersWrite(p, "set", r, s.store, Put(diskPlain, key, secret_value),
                              Cred(password, NoKeyfile))

\* delete.rs execute with --force, up to the call of save
CliDelete(p, password, key) ==
    /\ pc[p] = "idle"
    /\ ~store[p].live
    /\ \E o \in {open(target, password, NoKeyfile)} :
         LET d == delete_secret(o.store, key)
             r == [Result("delete", "Pending") EXCEPT
                      !.pw = password, !.name = key, !.derived = o.derived]
         IN  IF o.res # "Ok"
             THEN Returns(p, [r EXCEPT !.res = o.res], NullStore, EmptyMap, NullCred)
             ELSE IF d.res # "Ok"
             THEN Returns(p, [r EXCEPT !.res = d.res], NullStore, EmptyMap, NullCred)
             ELSE EntersWrite(p, "delete", r, d.store, Remove(diskPlain, key),
                              Cred(password, NoKeyfile))

ExportFormats == {"env", "json"}
\* --output: absent (stdout), a plain file, a path ending in .vault
OutputPaths == {"stdout", "out.env", "copy.vault"}

\* export.rs: log_audit is called once the content is formatted, ahead of the test of
\* the destination and of fs::write
export_logs(log, db_opens, refused, write_ok, details) ==
    log_audit(log, db_opens, "export", <<>>, details)

\* export.rs execute; `write_ok` tells whether fs::write(dest_path, ..) succeeds
CliExport(p, password, format, output_path, db_opens, write_ok) ==
    /\ pc[p] = "idle"
    /\ ~store[p].live
    /\ \E o \in {open(target, password, NoKeyfile)} :
         LET secrets == get_all_secrets(o.store)
             r == [Result("export", "Pending") EXCEPT !.pw = password, !.derived = o.derived]
             fails(res) == Returns(p, [r EXCEPT !.res = res], NullStore, EmptyMap, NullCred)
             details == Details(format, Cardinality(DOMAIN secrets.map))
             refused == output_path = "copy.vault"
             to_file == output_path # "stdout"
             res == IF to_file /\ (refused \/ ~write_ok) THEN "CommandFailed" ELSE "Ok"
         IN  IF o.res # "Ok" THEN fails(o.res)
             ELSE IF secrets.res # "Ok" THEN fails(secrets.res)
             ELSE IF format \notin ExportFormats THEN fails("CommandFailed")
             ELSE /\ audit' = export_logs(audit, db_opens, to_file /\ refused,
                                          ~to_file \/ write_ok, details)
                  /\ dest' = IF to_file /\ ~refused /\ write_ok
                             THEN File(<<Tok(format, secrets.map)>>)
                             ELSE dest
                  /\ ReturnsCli(p, [r EXCEPT !.res = res, !.details = details],
                                NullStore, EmptyMap, NullCred)
                  /\ UNCHANGED editTmp

\* env_delete.rs execute; the one vault of the model is the one of cli.env, so another
\* name finds no file.  `removed` tells whether fs::remove_file succeeds.
CliEnvDelete(p, name, force, removed, db_opens) ==
    /\ pc[p] = "idle"
    /\ ~store[p].live
    /\ \A q \in Writers : pc[q] = "idle"
    /\ LET r == [Result("env-delete", "Pending") EXCEPT !.name = name]
           fails(res) == Returns(p, [r EXCEPT !.res = res], NullStore, EmptyMap, NullCred)
       IN  IF validate_env_name(name) # "Ok" THEN fails("ConfigError")
           ELSE IF name # CliEnv \/ ~target.exists THEN fails("EnvironmentNotFound")
           ELSE IF ~force THEN fails("Ok")
           ELSE IF ~removed THEN fails("Io")
           ELSE /\ target' = NoFile
                /\ diskPlain' = EmptyMap
                /\ diskCred' = NullCred
                /\ lastRename' = <<>>
                /\ edits' = 0
                /\ audit' = log_audit(audit, db_opens, "env-delete", <<>>,
                                      Details("deleted", 0))
                /\ last' = [last EXCEPT ![p] = [r EXCEPT !.res = "Ok",
                                                         !.details = Details("deleted", 0)]]
                /\ UNCHANGED <<tmp, fdAt, off, pc, op, store, now, plain, cred,
                               editTmp, dest>>

(***************************************************************************)
(* cli/commands/rotate.rs: execute up to the call of save                  *)
(***************************************************************************)
RECURSIVE reinsert_at_epoch(_, _, _, _, _)
reinsert_at_epoch(st, secrets, names, nonces, t) ==
    IF names = {} THEN [res |-> "Ok", store |-> st]
    ELSE LET n == CHOOSE x \in names : TRUE
             s == set_secret(st, n, secrets[n], nonces[n], 0)
         IN  IF s.res # "Ok" THEN s
             ELSE reinsert_at_epoch(s.store, secrets, names \ {n}, nonces, t)

\* for (name, value) in &secrets { new_store.set_secret(name, value)?; }
RECURSIVE reinsert(_, _, _, _, _)
reinsert(st, secrets, names, nonces, t) ==
    IF names = {} THEN [res |-> "Ok", store |-> st]
    ELSE LET n == CHOOSE x \in names : TRUE
             s == set_secret(st, n, secrets[n], nonces[n], t)
         IN  IF s.res # "Ok" THEN s ELSE reinsert(s.store, secrets, names \ {n}, nonces, t)

\* `nonces` are the values encrypt draws for the re-inserted secrets; the count in the
\* text of the audit row is left out
RotateBegin(p, old_password, new_password, keyfile, params, nonces) ==
    /\ pc[p] = "idle"
    /\ ~store[p].live
    /\ \E opened \in {open(target, old_password, keyfile)} :
       \E secrets \in {get_all_secrets(opened.store)} :
         LET r == [Result("rotate", "Pending") EXCEPT !.oldpw = old_password,
                                                       !.pw = new_password, !.kf = keyfile]
             old == opened.store
             fails(res, derived) ==
                 Returns(p, [r EXCEPT !.res = res, !.derived = derived,
                                      !.unwiped = open_leaves(opened)
                                                  \cup get_secret_leaves(secrets)],
                         NullStore, EmptyMap, NullCred)
         IN  IF opened.res # "Ok" THEN fails(opened.res, opened.derived)
             ELSE IF secrets.res # "Ok" THEN fails(secrets.res, TRUE)
             ELSE /\ SaltAvailable
                  /\ \E new_salt \in {generate_salt} :
                     \E master \in {derive_master_key_with_params(
                                        effective_password(new_password, keyfile),
                                        new_salt, params)} :
                       LET new_header == [version |-> CURRENT_VERSION,
                                          salt |-> new_salt,
                                          created_at |-> old.header.created_at,
                                          environment |-> old.header.environment,
                                          argon2_params |-> SomeParams(params),
                                          keyfile_hash |-> old.header.keyfile_hash]
                       IN  IF master.res # "Ok" THEN fails(master.res, TRUE)
                           ELSE \E new_store \in {reinsert(from_parts(new_header, master.key),
                                                            secrets.map, DOMAIN secrets.map,
                                                            nonces, now)} :
                                  IF new_store.res # "Ok" THEN fails(new_store.res, TRUE)
                                  ELSE EntersWrite(p, "rotate",
                                                   [r EXCEPT !.derived = TRUE, !.hdr = old.header,
                                                             !.details =
                                                                 Details("re-encrypted", 0)],
                                                   new_store.store, diskPlain,
                                                   Cred(new_password, keyfile))

(***************************************************************************)
(* cli/commands/edit.rs                                                    *)
(***************************************************************************)
\* the KEY=VALUE lines of `secrets`, in plaintext
EditLines(secrets) == <<Tok("plain", secrets)>>
\* vec![0u8; len]
Zeros == <<Tok("zeros", EmptyMap)>>

\* the sets of keys whose lines can be on disk when a writeln! fails: the loop goes
\* through the keys in sorted order
WrittenBefore(secrets) ==
    {done \in SUBSET DOMAIN secrets :
        \A a \in done, b \in DOMAIN secrets \ done : LexLess(a, b)}

\* write_temp_file: create_new with mode 0o600, then one writeln! per secret.  A failed
\* creation leaves no file; a failed writeln! returns with the lines of `done` written.
write_temp_file(secrets, create_ok, write_ok, done) ==
    IF ~create_ok THEN [res |-> "EditorError", file |-> NoFile]
    ELSE IF ~write_ok
    THEN [res |-> "Io",
          file |-> FileM(EditLines([k \in done |-> secrets[k]]), 384)]
    ELSE [res |-> "Ok", file |-> FileM(EditLines(secrets), 384)]

\* secure_delete: every failure is ignored.  `wipe_ok`: the file opens for writing and
\* write_all goes through; `unlink_ok`: fs::remove_file goes through.
secure_delete(file, wipe_ok, unlink_ok) ==
    IF ~file.exists THEN file
    ELSE IF unlink_ok THEN NoFile
    ELSE IF wipe_ok /\ Len(file.data) > 0 THEN [file EXCEPT !.data = Zeros]
    ELSE file

\* for key in old.keys() { if !new.contains_key(key) { store.delete_secret(key)?; } }
RECURSIVE remove_each(_, _)
remove_each(st, names) ==
    IF names = {} THEN [res |-> "Ok", store |-> st]
    ELSE LET n == CHOOSE x \in names : TRUE
             d == delete_secret(st, n)
         IN  IF d.res # "Ok" THEN d ELSE remove_each(d.store, names \ {n})

\* apply_changes: set_secret for every added or changed key, delete_secret for every
\* removed one; `n` is added + removed + changed
apply_changes(st, old, new, nonces, t) ==
    LET sets == {k \in DOMAIN new : k \notin DOMAIN old \/ old[k] # new[k]}
        dels == DOMAIN old \ DOMAIN new
        s == reinsert(st, new, sets, nonces, t)
        d == remove_each(s.store, dels)
    IN  IF s.res # "Ok" THEN [res |-> s.res, store |-> st, n |-> 0]
        ELSE IF d.res # "Ok" THEN [res |-> d.res, store |-> st, n |-> 0]
        ELSE [res |-> "Ok", store |-> d.store,
              n |-> Cardinality(sets) + Cardinality(dels)]

\* execute, from its start to the launch of the editor
EditBegin(p, password, create_ok, write_ok, done) ==
    /\ pc[p] = "idle"
    /\ ~store[p].live
    /\ \E o \in {open(target, password, NoKeyfile)} :
       \E secrets \in {get_all_secrets(o.store)} :
         LET r == [Result("edit", "Pending") EXCEPT !.pw = password, !.derived = o.derived]
             fails(res) == Returns(p, [r EXCEPT !.res = res], NullStore, EmptyMap, NullCred)
         IN  IF o.res # "Ok" THEN fails(o.res)
             ELSE IF secrets.res # "Ok" THEN fails(secrets.res)
             ELSE /\ done \in WrittenBefore(secrets.map)
                  /\ \E w \in {write_temp_file(secrets.map, create_ok, write_ok, done)} :
                       /\ editTmp' = [editTmp EXCEPT ![p] = w.file]
                       /\ UNCHANGED <<audit, dest>>
                       /\ IF w.res # "Ok"
                          THEN ReturnsCli(p, [r EXCEPT !.res = w.res],
                                          NullStore, EmptyMap, NullCred)
                          ELSE /\ pc' = [pc EXCEPT ![p] = "editor"]
                               /\ op' = [op EXCEPT ![p] = "edit"]
                               /\ last' = [last EXCEPT ![p] = r]
                               /\ store' = [store EXCEPT ![p] = o.store]
                               /\ plain' = [plain EXCEPT ![p] = secrets.map]
                               /\ cred' = [cred EXCEPT ![p] = Cred(password, NoKeyfile)]
                               /\ UNCHANGED <<target, tmp, fdAt, off, now, diskPlain,
                                              diskCred, lastRename, edits>>

EditorOutcomes == {"launch_failed", "nonzero", "success"}

\* execute, from the return of Command::status to the call of save.  `new_secrets` is
\* what the user left in the file; `read_ok` tells whether fs::read_to_string succeeds.
EditorExit(p, outcome, read_ok, wipe_ok, unlink_ok, new_secrets, nonces) ==
    /\ pc[p] = "editor"
    /\ LET r == last[p]
           edited == [editTmp[p] EXCEPT !.data = EditLines(new_secrets)]
           returns(res, file) ==
               /\ pc' = [pc EXCEPT ![p] = "idle"]
               /\ op' = [op EXCEPT ![p] = "none"]
               /\ last' = [last EXCEPT ![p] = [r EXCEPT !.res = res]]
               /\ store' = [store EXCEPT ![p] = NullStore]
               /\ plain' = [plain EXCEPT ![p] = EmptyMap]
               /\ cred' = [cred EXCEPT ![p] = NullCred]
               /\ editTmp' = [editTmp EXCEPT ![p] = file]
               /\ UNCHANGED <<target, tmp, fdAt, off, now, diskPlain, diskCred,
                              lastRename, edits, audit, dest>>
       IN  IF outcome = "launch_failed" THEN returns("EditorError", editTmp[p])
           ELSE IF outcome = "nonzero"
           THEN returns("EditorError", secure_delete(editTmp[p], wipe_ok, unlink_ok))
           ELSE IF ~read_ok THEN returns("EditorError", edited)
           ELSE \E a \in {apply_changes(store[p], plain[p], new_secrets, nonces, now)} :
                \E gone \in {secure_delete(edited, wipe_ok, unlink_ok)} :
                  IF a.res # "Ok" THEN returns(a.res, gone)
                  ELSE IF a.n = 0 THEN returns("Ok", gone)
                  ELSE /\ EntersWriteCli(p, "edit",
                                         [r EXCEPT !.details = Details("changes", a.n)],
                                         a.store, new_secrets, cred[p])
                       /\ editTmp' = [editTmp EXCEPT ![p] = gone]
                       /\ UNCHANGED <<audit, dest>>

(***************************************************************************)
(* An outside party changes one byte of the vault file at rest             *)
(***************************************************************************)
Junk == Byte(63)

\* what a changed byte can turn a cell into: another byte value; for a JSON token a
\* broken syntax, a renamed field, or another value of the field; for a tag byte
\* another byte
Variants(c) ==
    IF c.k = "b" THEN {Byte((c.v + 1) % 256), Byte((c.v + 255) % 256), Byte(0)} \ {c}
    ELSE IF c.k \in {"mac", "mac_rest"} THEN {Byte(0)}
    ELSE IF c.k = "secret"
    THEN {Junk,
          Tok("secret", [c.v EXCEPT !.encrypted_value.intact = FALSE]),
          Tok("secret", [c.v EXCEPT !.name[1] = 90])}
    ELSE {Junk, Tok("unknown", 0)} \cup
         (IF c.k = "version" THEN {Tok("version", 9)}
          ELSE IF c.k = "salt" THEN {Tok("salt", 0), Tok("salt", -1)}
          ELSE IF c.k = "created_at" THEN {Tok("created_at", c.v + 1), Tok("created_at", -1)}
          ELSE IF c.k = "environment" THEN {Tok("environment", [c.v EXCEPT ![1] = 120])}
          ELSE IF c.k = "argon2_params"
          THEN {Tok("argon2_params", [c.v EXCEPT !.iterations = 0]),
                Tok("argon2_params", [c.v EXCEPT !.memory_kib = c.v.memory_kib + 1000])}
          ELSE IF c.k = "keyfile_hash" THEN {Tok("keyfile_hash", hash_keyfile(NoKeyfile))}
          ELSE {})

Tamper(i, c) ==
    /\ \A p \in Writers : pc[p] = "idle"
    /\ target.exists
    /\ edits = 0
    /\ i \in 1..Len(target.data)
    /\ c \in Variants(target.data[i])
    /\ target' = [target EXCEPT !.data[i] = c]
    /\ edits' = 1
    /\ UNCHANGED cliVars
    /\ UNCHANGED <<tmp, fdAt, off, pc, op, store, last, now, plain, cred,
                   diskPlain, diskCred, lastRename>>

\* the vault file is cut to its first n bytes (the medium was full, a copy was
\* interrupted)
Truncate(n) ==
    /\ \A p \in Writers : pc[p] = "idle"
    /\ target.exists
    /\ edits = 0
    /\ n \in 0..(Len(target.data) - 1)
    /\ target' = [target EXCEPT !.data = SubSeq(target.data, 1, n)]
    /\ edits' = 2
    /\ UNCHANGED cliVars
    /\ UNCHANGED <<tmp, fdAt, off, pc, op, store, last, now, plain, cred,
                   diskPlain, diskCred, lastRename>>

\* the header lengths an outside party writes into bytes 5..8 of a file of `size`
\* bytes: up to the end of the file, one more, and the largest values of a u32
ForgedLengths(size) ==
    {to_le_bytes(0), to_le_bytes(size - PREFIX_LEN - HMAC_LEN),
     to_le_bytes(size - PREFIX_LEN - HMAC_LEN + 1),
     <<Byte(255), Byte(255), Byte(255), Byte(127)>>,
     <<Byte(214), Byte(255), Byte(255), Byte(255)>>,
     <<Byte(215), Byte(255), Byte(255), Byte(255)>>,
     <<Byte(246), Byte(255), Byte(255), Byte(255)>>,
     <<Byte(247), Byte(255), Byte(255), Byte(255)>>,
     <<Byte(255), Byte(255), Byte(255), Byte(255)>>}

\* the header length field of the vault file is overwritten
SetLength(b) ==
    /\ \A p \in Writers : pc[p] = "idle"
    /\ target.exists
    /\ edits = 0
    /\ Len(target.data) >= PREFIX_LEN
    /\ b # SubSeq(target.data, 6, 9)
    /\ target' = [target EXCEPT !.data = SubSeq(target.data, 1, 5) \o b
                                   \o SubSeq(target.data, PREFIX_LEN + 1, Len(target.data))]
    /\ edits' = 2
    /\ UNCHANGED cliVars
    /\ UNCHANGED <<tmp, fdAt, off, pc, op, store, last, now, plain, cred,
                   diskPlain, diskCred, lastRename>>

\* the header of the vault file is edited by hand: argon2_params is given another
\* value, every other byte of the file stays
EditParams(params) ==
    /\ \A p \in Writers : pc[p] = "idle"
    /\ edits = 0
    /\ \E i \in 1..Len(target.data) :
          /\ target.data[i].k = "argon2_params"
          /\ target.data[i].v # params
          /\ target' = [target EXCEPT !.data[i] = Tok("argon2_params", params)]
    /\ edits' = 2
    /\ UNCHANGED cliVars
    /\ UNCHANGED <<tmp, fdAt, off, pc, op, store, last, now, plain, cred,
                   diskPlain, diskCred, lastRename>>

\* a vault written by v0.1.0 is at `path` when the program is first called: its header
\* has no argon2_params and its key came from derive_master_key
LegacyVault(password) ==
    /\ \A p \in Writers : pc[p] = "idle" /\ ~store[p].live /\ last[p].op = "none"
    /\ ~target.exists
    /\ SaltAvailable
    /\ \E salt \in {generate_salt} :
       \E buf \in {write_vault_buf(
                       [version |-> CURRENT_VERSION, salt |-> salt, created_at |-> now,
                        environment |-> EnvDev, argon2_params |-> NoParams,
                        keyfile_hash |-> NoHash],
                       <<>>,
                       derive_hmac_key(derive_master_key(raw_password(password), salt).key))} :
          /\ target' = File(buf)
          /\ lastRename' = buf
    /\ diskPlain' = EmptyMap
    /\ diskCred' = Cred(password, NoKeyfile)
    /\ edits' = 0
    /\ UNCHANGED cliVars
    /\ UNCHANGED <<tmp, fdAt, off, pc, op, store, last, now, plain, cred>>

(***************************************************************************)
(* Specifications                                                          *)
(***************************************************************************)
\* fs::write and fs::rename inside write_vault
WriteSteps(p) ==
    \/ TmpOpen(p)
    \/ TmpWrite(p)
    \/ RenameStep(p)

\* Single writer: one process at a time owns the vault file
Next ==
    \/ \E pw \in Passwords, env \in Environments, ap \in ParamArgs, kf \in {NoKeyfile, KF1} :
          CreateBegin(1, pw, env, ap, kf)
    \/ \E pw \in Passwords, kf \in KeyfileArgs : Open(1, pw, kf)
    \/ \E n \in NameArgs, v \in Values, nc \in Nonces : SetSecret(1, n, v, nc)
    \/ \E n \in NameArgs : GetSecret(1, n)
    \/ \E n \in NameArgs : DeleteSecret(1, n)
    \/ SaveBegin(1)
    \/ WriteSteps(1)
    \/ Exit(1)

Spec == Init /\ [][Next]_vars

\* Single writer whose saves can fail and which can be killed at any step of a save
NextCrash ==
    \/ \E kf \in {NoKeyfile, KF1} : CreateBegin(1, "pwA", EnvDev, SomeParams(FastParams), kf)
    \/ \E pw \in Passwords, kf \in {NoKeyfile, KF1} : Open(1, pw, kf)
    \/ \E n \in Names, v \in Values : SetSecret(1, n, v, 1)
    \/ \E n \in Names : DeleteSecret(1, n)
    \/ SaveBegin(1)
    \/ WriteSteps(1)
    \/ IoFail(1)
    \/ Kill(1)
    \/ Exit(1)

SpecCrash == Init /\ [][NextCrash]_vars

\* Single writer, and an outside party that changes one byte of the saved file
NextTamper ==
    \/ \E ap \in {NoParams, SomeParams(FastParams)}, kf \in {NoKeyfile, KF1} :
          CreateBegin(1, "pwA", EnvDev, ap, kf)
    \/ \E pw \in Passwords, kf \in {NoKeyfile, KF1} : Open(1, pw, kf)
    \/ SetSecret(1, NameA, "v1", 1)
    \/ SaveBegin(1)
    \/ WriteSteps(1)
    \/ Exit(1)
    \/ \E i \in 1..Len(target.data) : \E c \in Variants(target.data[i]) : Tamper(i, c)

SpecTamper == Init /\ [][NextTamper]_vars

\* Single writer and the rotate-key command; the keyfile handed to it went through
\* cli::load_keyfile, which only returns keyfiles of KEYFILE_LEN bytes
NextRotate ==
    \/ \E kf \in {NoKeyfile, KF1} : CreateBegin(1, "pwA", EnvDev, NoParams, kf)
    \/ Open(1, "pwB", KF1)
    \/ SetSecret(1, NameA, "v1", 1)
    \/ SetSecret(1, NameB, "v2", 1)
    \/ SaveBegin(1)
    \/ WriteSteps(1)
    \/ Exit(1)
    \/ \E old \in Passwords, new \in Passwords, kf \in {NoKeyfile} \cup Keyfiles,
          params \in {FastParams, WeakParams} :
          RotateBegin(1, old, new, kf, params, [n \in Names |-> 2])
    \/ Tick

SpecRotate == Init /\ [][NextRotate]_vars

\* Two processes hold the same vault open and save without coordination
NextConc ==
    \/ CreateBegin(1, "pwA", EnvDev, SomeParams(FastParams), NoKeyfile)
    \/ Open(2, "pwA", NoKeyfile)
    \/ SetSecret(1, NameA, "v1", 1)
    \/ SetSecret(2, NameB, "v2", 1)
    \/ \E p \in Writers : SaveBegin(p) \/ WriteSteps(p)

SpecConc == Init /\ [][NextConc]_vars

\* Single writer and rotate-key under every kind of Argon2 parameters: given to create,
\* loaded from the settings by rotate-key, stored in the header (also by hand), or
\* absent from the header of a v0.1.0 vault
NextParams ==
    \/ \E ap \in {NoParams} \cup {SomeParams(x) : x \in {MidParams} \cup BelowMinimum},
          kf \in {NoKeyfile, KF1} :
          CreateBegin(1, "pwA", EnvDev, ap, kf)
    \/ \E pw \in Passwords : LegacyVault(pw)
    \/ \E pw \in Passwords, kf \in {NoKeyfile, KF1} : Open(1, pw, kf)
    \/ SetSecret(1, NameA, "v1", 1)
    \/ SaveBegin(1)
    \/ WriteSteps(1)
    \/ Exit(1)
    \/ \E params \in {FastParams} \cup BelowMinimum : EditParams(params)
    \/ \E kf \in {NoKeyfile, KF1}, params \in {FastParams} \cup BelowMinimum :
          RotateBegin(1, "pwA", "pwB", kf, params, [n \in Names |-> 2])

SpecParams == Init /\ [][NextParams]_vars

\* Single writer under a clock that moves: sessions of set_secret, delete_secret, save
\* and re-open on one vault
NextTime ==
    \/ \E env \in {EnvDev, EnvProd} :
          CreateBegin(1, "pwA", env, SomeParams(FastParams), NoKeyfile)
    \/ Open(1, "pwA", NoKeyfile)
    \/ SetSecret(1, NameA, "v1", 1)
    \/ DeleteSecret(1, NameA)
    \/ SaveBegin(1)
    \/ WriteSteps(1)
    \/ Exit(1)
    \/ Tick
    \/ ClockBack

SpecTime == Init /\ [][NextTime]_vars

\* Single writer on any target, and an outside party that damages the structure of the
\* saved file: one byte changed, the file cut short, the header length overwritten
NextStruct ==
    \/ CreateBegin(1, "pwA", EnvDev, SomeParams(FastParams), NoKeyfile)
    \/ \E tgt \in Targets : OpenOn(1, "pwA", NoKeyfile, tgt)
    \/ SetSecret(1, NameA, "v1", 1)
    \/ SaveBegin(1)
    \/ WriteSteps(1)
    \/ Exit(1)
    \/ \E i \in 1..Len(target.data) : \E c \in Variants(target.data[i]) : Tamper(i, c)
    \/ \E n \in 0..Len(target.data) : Truncate(n)
    \/ \E b \in ForgedLengths(Len(target.data)) : SetLength(b)

SpecStruct == Init /\ [][NextStruct]_vars

\* Single writer in processes of either umask, whose saves can fail and leave the temp
\* file behind
NextPerm ==
    \/ CreateBegin(1, "pwA", EnvDev, SomeParams(FastParams), NoKeyfile)
    \/ Open(1, "pwA", NoKeyfile)
    \/ \E v \in Values : SetSecret(1, NameA, v, 1)
    \/ SaveBegin(1)
    \/ \E umask \in Umasks : TmpOpenAs(1, umask)
    \/ TmpWrite(1)
    \/ RenameStep(1)
    \/ IoFail(1)
    \/ Exit(1)

SpecPerm == Init /\ [][NextPerm]_vars

\* Single writer that hands every kind of name to set_secret, get_secret and
\* delete_secret
NextNames ==
    \/ CreateBegin(1, "pwA", EnvDev, SomeParams(FastParams), NoKeyfile)
    \/ Open(1, "pwA", NoKeyfile)
    \/ \E n \in NameTries : SetSecret(1, n, "v1", 1)
    \/ \E n \in NameTries : GetSecret(1, n)
    \/ \E n \in NameTries : DeleteSecret(1, n)
    \/ SaveBegin(1)
    \/ WriteSteps(1)
    \/ Exit(1)

SpecNames == Init /\ [][NextNames]_vars

\* main() run with every kind of environment name
NextEnvName ==
    \E name \in EnvNames : ValidateEnvName(1, name)

SpecEnvName == Init /\ [][NextEnvName]_vars

\* Single writer that fills the store in every order under a clock that advances, and
\* lists it
NextList ==
    \/ CreateBegin(1, "pwA", EnvDev, SomeParams(FastParams), NoKeyfile)
    \/ \E n \in NamesListed : SetSecret(1, n, "v1", 1)
    \/ \E n \in NamesListed : DeleteSecret(1, n)
    \/ \E order \in values_orders(store[1].secrets) : ListSecrets(1, order)
    \/ WriteSteps(1)
    \/ Tick

SpecList == Init /\ [][NextList]_vars

\* Single writer that fills the store in every order, saves, saves again and re-opens
NextSave ==
    \/ CreateBegin(1, "pwA", EnvDev, SomeParams(FastParams), NoKeyfile)
    \/ Open(1, "pwA", NoKeyfile)
    \/ \E n \in {NameA, NameAB, NameB} : SetSecret(1, n, "v1", 1)
    \/ SaveBegin(1)
    \/ WriteSteps(1)
    \/ Exit(1)

SpecSave == Init /\ [][NextSave]_vars

\* One user runs commands one after the other; saves can fail, the export file can be
\* unwritable, audit.db can be out of reach
NextAudit ==
    \/ CreateBegin(1, "pwA", EnvDev, SomeParams(FastParams), NoKeyfile)
    \/ Exit(1)
    \/ \E key \in {NameA, <<65, 32>>} : CliSet(1, "pwA", key, "v1", 1)
    \/ CliDelete(1, "pwA", NameA)
    \/ \E pw \in Passwords, format \in {"env", "xml"}, out \in OutputPaths,
          db_opens \in BOOLEAN, write_ok \in BOOLEAN :
          CliExport(1, pw, format, out, db_opens, write_ok)
    \/ \E name \in {EnvDev, EnvUpper}, force \in BOOLEAN, removed \in BOOLEAN,
          db_opens \in BOOLEAN :
          CliEnvDelete(1, name, force, removed, db_opens)
    \/ WriteSteps(1)

SpecAudit == Init /\ [][NextAudit]_vars

\* Two processes call create on the same path, each with its own password
NextCreate ==
    \/ CreateBegin(1, "pwA", EnvDev, SomeParams(FastParams), NoKeyfile)
    \/ CreateBegin(2, "pwB", EnvDev, SomeParams(FastParams), NoKeyfile)
    \/ \E p \in Writers : WriteSteps(p) \/ Exit(p)

SpecCreate == Init /\ [][NextCreate]_vars

\* what the user can leave in the editor: nothing, the lines as they were, an added key
EditedMaps ==
    {EmptyMap, [n \in {NameA} |-> "v1"], [n \in {NameA, NameB} |-> "v1"]}

\* One user sets a secret and runs `edit`; the temp file and the editor can fail, and
\* fs::remove_file works whenever it is called
NextEdit ==
    \/ CreateBegin(1, "pwA", EnvDev, SomeParams(FastParams), NoKeyfile)
    \/ Exit(1)
    \/ CliSet(1, "pwA", NameA, "v1", 1)
    \/ \E create_ok \in BOOLEAN, write_ok \in BOOLEAN, done \in SUBSET {NameA} :
          EditBegin(1, "pwA", create_ok, write_ok, done)
    \/ \E outcome \in EditorOutcomes, read_ok \in BOOLEAN, wipe_ok \in BOOLEAN,
          new_secrets \in EditedMaps :
          EditorExit(1, outcome, read_ok, wipe_ok, TRUE, new_secrets, [n \in Names |-> 2])
    \/ WriteSteps(1)

SpecEdit == Init /\ [][NextEdit]_vars

\* Single writer whose calls fail in every way they can: a name that breaks the rules,
\* parameters below the minima, a wrong password, a missing secret, a failed write
NextErr ==
    \/ \E env \in EnvArgs, params \in {FastParams, WeakParams} :
          CreateBegin(1, "pwA", env, SomeParams(params), NoKeyfile)
    \/ \E pw \in Passwords : Open(1, pw, NoKeyfile)
    \/ \E n \in {NameA, <<65, 32>>} : SetSecret(1, n, "v1", 1)
    \/ \E n \in NameArgs : GetSecret(1, n)
    \/ \E n \in NameArgs : DeleteSecret(1, n)
    \/ SaveBegin(1)
    \/ WriteSteps(1)
    \/ IoFail(1)
    \/ Exit(1)

SpecErr == Init /\ [][NextErr]_vars

(***************************************************************************)
(* Properties                                                              *)
(***************************************************************************)
\* what a holder of the credentials `cr` reads out of `file`
Contents(file, cr) ==
    LET o == open(file, cr.pw, cr.kf)
    IN  [res |-> o.res,
         map |-> IF o.res = "Ok"
                 THEN [n \in DOMAIN o.store.secrets |-> get_secret(o.store, n)]
                 ELSE EmptyMap]

Got(value) == [res |-> "Ok", val |-> value]

\* C1: round trip.  An open with the password and keyfile of the last successful save
\* succeeds, and the opened store answers get_secret with exactly the plaintext last set
\* for every name saved and with SecretNotFound for every name deleted or never set.
RoundTrip ==
    \A p \in Writers :
        (last[p].op = "open" /\ last[p].pw = diskCred.pw /\ last[p].kf = diskCred.kf)
        => /\ last[p].res = "Ok"
           /\ \A n \in Names :
                  get_secret(store[p], n) =
                      IF n \in DOMAIN diskPlain THEN Got(diskPlain[n])
                      ELSE [res |-> "SecretNotFound", val |-> ""]

\* a keyfile vault holding two different values was reopened after one name had been
\* set, saved, deleted and saved again by an earlier session
RoundTripWitness ==
    \E p \in Writers :
        /\ last[p].op = "open" /\ last[p].res = "Ok"
        /\ diskCred.kf # NoKeyfile
        /\ store[p].header.argon2_params = SomeParams(FastParams)
        /\ DOMAIN diskPlain = Names
        /\ diskPlain[NameA] # diskPlain[NameB]

\* C2: atomic save.  Whatever step a single writer's save has reached, failed at or
\* was killed at, a target that exists holds the complete envelope of the last save
\* whose rename ran, and opens with that save's password and keyfile to that save's
\* secrets.
AtomicSave ==
    target.exists
    => /\ target.data = lastRename
       /\ Contents(target, diskCred).res = "Ok"
       /\ Contents(target, diskCred).map = [n \in DOMAIN diskPlain |-> Got(diskPlain[n])]

\* the writer was killed while the temp file held a part of a new envelope that
\* differs from the one in the target
AtomicSaveWitness ==
    /\ last[1].op = "kill"
    /\ target.exists /\ tmp.exists
    /\ tmp.data # <<>>
    /\ Len(tmp.data) <= WriteGranule
    /\ diskPlain # EmptyMap

\* the cells of the saved envelope that the outside party changed, by kind
Changed(kinds) ==
    \E i \in 1..Len(lastRename) : target.data[i] # lastRename[i] /\ lastRename[i].k \in kinds

\* C3 as stated: after any change of one byte, open with the correct password returns
\* HmacMismatch or InvalidVaultFormat and nothing else.
TamperTwoKinds ==
    edits = 1
    => open(target, diskCred.pw, diskCred.kf).res \in {"HmacMismatch", "InvalidVaultFormat"}

\* C3, amended: after any change of one byte, open with the correct password and keyfile
\* never succeeds; it returns HmacMismatch or InvalidVaultFormat, except that a changed
\* byte inside argon2_params can make it return KeyDerivationFailed and a changed byte
\* inside keyfile_hash can make it return KeyfileError.
TamperDetected ==
    edits = 1
    => LET res == open(target, diskCred.pw, diskCred.kf).res
       IN  /\ res \in {"HmacMismatch", "InvalidVaultFormat", "KeyDerivationFailed", "KeyfileError"}
           /\ res = "KeyDerivationFailed" => Changed({"argon2_params"})
           /\ res = "KeyfileError" => Changed({"keyfile_hash"})

\* the owner opened a vault whose iteration count had been changed to 0
TamperDetectedWitness ==
    \E p \in Writers :
        /\ edits = 1
        /\ last[p].op = "open" /\ last[p].pw = diskCred.pw /\ last[p].kf = diskCred.kf
        /\ last[p].res = "KeyDerivationFailed"
        /\ diskPlain # EmptyMap

NoTornWrites ==
    target.exists
    => /\ Contents(target, diskCred).res = "Ok"
       /\ (\A p \in Writers : pc[p] = "idle") => target.data = lastRename

\* C6: a vault created with a keyfile returns KeyfileError to open without a keyfile,
\* with a keyfile of another length and with another keyfile of KEYFILE_LEN bytes,
\* whatever the password; with its own keyfile and password it opens.
KeyfileRequired ==
    \A p \in Writers :
        (last[p].op = "open" /\ diskCred.kf # NoKeyfile)
        => /\ last[p].kf # diskCred.kf => last[p].res = "KeyfileError"
           /\ (last[p].kf = diskCred.kf /\ last[p].pw = diskCred.pw) => last[p].res = "Ok"
           /\ \A pw \in Passwords, kf \in KeyfileArgs \ {diskCred.kf} :
                  open(target, pw, kf).res = "KeyfileError"

\* open was refused with the right password and a keyfile that is too short
KeyfileRequiredWitness ==
    \E p \in Writers :
        /\ last[p].op = "open" /\ last[p].res = "KeyfileError"
        /\ diskCred.kf = KF1
        /\ last[p].kf = KFShort
        /\ last[p].pw = diskCred.pw

\* C7: when rotation to a new password other than the old one has completed, the old
\* password no longer opens the vault, the new one does, and the names and plaintexts
\* are those the vault held before.
RotationKeepsSecrets ==
    \A p \in Writers :
        (last[p].op = "rotate" /\ last[p].res = "Ok" /\ last[p].oldpw # last[p].pw)
        => /\ open(target, last[p].oldpw, last[p].kf).res # "Ok"
           /\ Contents(target, Cred(last[p].pw, last[p].kf)).res = "Ok"
           /\ Contents(target, Cred(last[p].pw, last[p].kf)).map
                  = [n \in DOMAIN diskPlain |-> Got(diskPlain[n])]

\* a vault with two secrets was rotated from one password to the other
RotationKeepsSecretsWitness ==
    \E p \in Writers :
        /\ last[p].op = "rotate" /\ last[p].res = "Ok"
        /\ last[p].oldpw # last[p].pw
        /\ DOMAIN diskPlain = Names

\* C8: the header rotation wrote has another salt and the created_at, environment and
\* keyfile_hash of the header it read; if that header required a keyfile, the caller
\* supplied it, and the rotated vault is refused without it and opens with it.
RotationKeepsIdentity ==
    \A p \in Writers :
        (last[p].op = "rotate" /\ last[p].res = "Ok")
        => LET new == read_vault(target).header
               old == last[p].hdr
           IN  /\ new.salt # old.salt
               /\ new.created_at = old.created_at
               /\ new.environment = old.environment
               /\ new.keyfile_hash = old.keyfile_hash
               /\ old.keyfile_hash.some
                  => /\ old.keyfile_hash.val = hash_keyfile(last[p].kf)
                     /\ open(target, last[p].pw, NoKeyfile).res = "KeyfileError"
                     /\ open(target, last[p].pw, last[p].kf).res = "Ok"

\* a keyfile vault was rotated at a later time than it was created
RotationKeepsIdentityWitness ==
    \E p \in Writers :
        /\ last[p].op = "rotate" /\ last[p].res = "Ok"
        /\ last[p].hdr.keyfile_hash.some
        /\ last[p].hdr.created_at # now
        /\ diskPlain # EmptyMap

\* C5: persistence is defined by save alone.  A step taken outside write_vault leaves the
\* vault file as it is, and the one step that changes it, the rename of a save, puts
\* every pending mutation of the saving store into the file at once.
SaveAloneCommits ==
    [][ /\ (\A p \in Writers : pc[p] = "idle") => target' = target
        /\ target' # target =>
               \E p \in Writers :
                   /\ pc[p] = "rename"
                   /\ target' = File(save_buf(store[p]))
                   /\ Contents(target', cred[p]).res = "Ok"
                   /\ Contents(target', cred[p]).map = [n \in DOMAIN plain[p] |-> Got(plain[p][n])]
      ]_vars

\* two set_secret calls are pending in memory while the file still holds no secret
SaveAloneCommitsWitness ==
    \E p \in Writers :
        /\ target.exists
        /\ last[p].op = "set_secret" /\ last[p].res = "Ok"
        /\ DOMAIN plain[p] = Names
        /\ Contents(target, diskCred).res = "Ok"
        /\ Contents(target, diskCred).map = EmptyMap

\* C10: create on a path that exists returns VaultAlreadyExists before any key is
\* derived and leaves every file as it is, whatever the arguments.
CreateOnExisting ==
    [][ \A p \in Writers, pw \in Passwords, env \in Environments,
           ap \in ParamArgs, kf \in KeyfileArgs :
            (target.exists /\ CreateBegin(p, pw, env, ap, kf))
            => /\ last'[p].op = "create"
               /\ last'[p].res = "VaultAlreadyExists"
               /\ ~last'[p].derived
               /\ pc'[p] = "idle"
               /\ UNCHANGED fsVars
      ]_vars

\* create was refused on a vault that holds a secret, with a password other than its own
CreateOnExistingWitness ==
    \E p \in Writers :
        /\ last[p].op = "create" /\ last[p].res = "VaultAlreadyExists"
        /\ last[p].pw # diskCred.pw
        /\ target.exists /\ target.data = lastRename
        /\ diskPlain # EmptyMap

\* C11 as stated: create refuses an environment name that breaks the rule of
\* validate_env_name, so no header in a file or in a store carries such a name.
EnvNameValidated ==
    /\ \A p \in Writers :
           (store[p].live /\ pc[p] = "idle")
           => validate_env_name(store[p].header.environment) = "Ok"
    /\ \A file \in {target, tmp} :
           read_vault(file).res = "Ok"
           => validate_env_name(read_vault(file).header.environment) = "Ok"

\* C12: an aborted operation changes nothing.  The step on which create, open,
\* set_secret, get_secret, delete_secret or save returns an error leaves the vault file
\* as it is; the store of a failed set_secret, get_secret, delete_secret or save keeps
\* its header and secrets, and a failed create or open returns no store.  Inside a call
\* the vault file changes on no step but the one that returns Ok, so the file after an
\* error is the file before the call.
AbortChangesNothing ==
    [][ \A p \in Writers :
          /\ (pc'[p] = "idle" /\ last'[p] # last[p] /\ last'[p].res # "Ok")
             => /\ last'[p].op \in {"create", "open", "set_secret", "get_secret",
                                    "delete_secret", "save"}
                /\ target' = target
                /\ IF last'[p].op \in {"create", "open"}
                   THEN ~store'[p].live
                   ELSE /\ store'[p].header = store[p].header
                        /\ store'[p].secrets = store[p].secrets
                        /\ store'[p].live
          /\ (pc[p] # "idle" \/ pc'[p] # "idle")
             => /\ target' # target => (pc'[p] = "idle" /\ last'[p].res = "Ok")
                /\ (op[p] = "save" \/ op'[p] = "save")
                   => (store'[p].header = store[p].header
                       /\ store'[p].secrets = store[p].secrets)
      ]_vars

\* a save failed after it had written a part of the temp file, while the store held a
\* secret that the vault file does not hold
AbortChangesNothingWitness ==
    /\ last[1].op = "save" /\ last[1].res = "Io"
    /\ pc[1] = "idle"
    /\ tmp.exists /\ tmp.data # <<>>
    /\ target.exists /\ target.data = lastRename
    /\ NameA \in DOMAIN plain[1] /\ NameA \notin DOMAIN diskPlain

\* the Argon2 parameters open uses for a header: the stored ones, else the defaults
StoredOrDefault(header) ==
    IF header.argon2_params.some THEN header.argon2_params.val ELSE StoredArgon2Default

BelowMinima(params) ==
    \/ params.memory_kib < 8192
    \/ params.iterations < 1
    \/ params.parallelism < 1

\* C13: the Argon2 minima hold at every derivation.  create with parameters below a
\* minimum on a free path returns KeyDerivationFailed and touches no file; rotate-key
\* with such parameters returns an error, KeyDerivationFailed once the old password has
\* opened the vault, and touches no file; and whenever the header of the vault file
\* stores such parameters, no password and keyfile open it: open returns
\* KeyDerivationFailed, or KeyfileError when the keyfile check, which comes first, fails.
ArgonMinima ==
    [][ /\ \A p \in Writers, pw \in Passwords, kf \in KeyfileArgs, params \in BelowMinimum :
             (~target.exists /\ CreateBegin(p, pw, EnvDev, SomeParams(params), kf))
             => /\ last'[p].res = "KeyDerivationFailed"
                /\ pc'[p] = "idle" /\ ~store'[p].live
                /\ UNCHANGED fsVars
        /\ \A p \in Writers, old \in Passwords, new \in Passwords,
              kf \in {NoKeyfile} \cup Keyfiles, params \in BelowMinimum :
             RotateBegin(p, old, new, kf, params, [n \in Names |-> 2])
             => /\ last'[p].res \notin {"Ok", "Pending"}
                /\ open(target, old, kf).res = "Ok" => last'[p].res = "KeyDerivationFailed"
                /\ pc'[p] = "idle" /\ ~store'[p].live
                /\ UNCHANGED fsVars
        /\ (read_vault(target').res = "Ok"
            /\ BelowMinima(StoredOrDefault(read_vault(target').header)))
           => /\ \A pw \in Passwords, kf \in KeyfileArgs :
                    open(target', pw, kf).res \in {"KeyDerivationFailed", "KeyfileError"}
              /\ open(target', diskCred'.pw, diskCred'.kf).res = "KeyDerivationFailed"
              /\ \A p \in Writers :
                    (last'[p] # last[p] /\ last'[p].op = "open") => ~store'[p].live
      ]_vars

\* the owner's open was refused with KeyDerivationFailed on a vault that holds a secret
\* and whose stored lane count had been edited to 0
ArgonMinimaWitness ==
    \E p \in Writers :
        /\ last[p].op = "open" /\ last[p].res = "KeyDerivationFailed"
        /\ last[p].pw = diskCred.pw /\ last[p].kf = diskCred.kf
        /\ read_vault(target).res = "Ok"
        /\ read_vault(target).header.argon2_params = SomeParams(ZeroLanes)
        /\ diskPlain # EmptyMap

\* C14 as stated: when the header of the vault file has no keyfile_hash, open with a
\* keyfile returns what open without a keyfile returns: the same result kind and, on
\* success, the same store.
KeyfileIgnored ==
    (read_vault(target).res = "Ok" /\ ~read_vault(target).header.keyfile_hash.some)
    => \A pw \in Passwords, kf \in KeyfileArgs :
           open(target, pw, kf) = open(target, pw, NoKeyfile)

\* the fields of a header that only rotation may change
Identity(header) ==
    [salt |-> header.salt, environment |-> header.environment,
     created_at |-> header.created_at]

\* C15: header immutability.  Without rotation, once the vault file exists no step of
\* set_secret, delete_secret, save, exit or open changes the salt, environment or
\* created_at of its header; no step changes them in a store; and a store that has been
\* returned carries those of the file.  Hence they stay what create wrote.
HeaderImmutable ==
    [][ /\ target.exists
           => /\ read_vault(target').res = "Ok"
              /\ Identity(read_vault(target').header) = Identity(read_vault(target).header)
        /\ \A p \in Writers :
              /\ (store[p].live /\ store'[p].live)
                 => Identity(store'[p].header) = Identity(store[p].header)
              /\ (store'[p].live /\ target'.exists)
                 => Identity(store'[p].header) = Identity(read_vault(target').header)
      ]_vars

\* the "prod" vault created at time 0 was given a secret at a later time and saved
HeaderImmutableWitness ==
    \E p \in Writers :
        /\ last[p].op = "save" /\ last[p].res = "Ok"
        /\ cred[p] = diskCred
        /\ now > 0
        /\ read_vault(target).header.created_at = 0
        /\ read_vault(target).header.environment = EnvProd
        /\ NameA \in DOMAIN diskPlain
        /\ store[p].secrets[NameA].created_at = now

\* the structural rules of the envelope, read off the bytes: at least 41 bytes, the
\* magic, version 1, 9 + L + 32 within the file, and both sections parse
Malformed(data) ==
    \/ Len(data) < 41
    \/ SubSeq(data, 1, 4) # Bytes(MAGIC)
    \/ data[5] # Byte(1)
    \/ LET L == from_le_bytes(SubSeq(data, 6, 9))
       IN  \/ L.hi > 0
           \/ L.lo > Len(data) - 41
           \/ header_from_slice(SubSeq(data, 10, 9 + L.lo)).res # "Ok"
           \/ secrets_from_slice(SubSeq(data, 10 + L.lo, Len(data) - 32)).res # "Ok"

\* C16 as stated: for every file that breaks a structural rule, open returns
\* InvalidVaultFormat, whatever the password, the keyfile and the target the program was
\* compiled for, and it neither derives a key nor returns a store.
StructuralRejection ==
    (target.exists /\ Malformed(target.data))
    => \A tgt \in Targets, pw \in Passwords, kf \in KeyfileArgs :
           open_on(target, pw, kf, tgt) = OpenResult("InvalidVaultFormat", FALSE, NullStore)

\* C17: open derives the master key from the salt and the Argon2 parameters stored in
\* the header, and from 65536 KiB / 3 iterations / 4 lanes for a header without
\* argon2_params; so a vault that create or v0.1.0 wrote with any valid parameters
\* re-opens with its password and keyfile.
OpenUsesStoredParams ==
    /\ read_vault(target).res = "Ok"
       => \A pw \in Passwords, kf \in KeyfileArgs :
              LET o == open(target, pw, kf)
                  header == read_vault(target).header
              IN  o.res = "Ok"
                  => /\ o.store.master_key.salt = header.salt
                     /\ o.store.master_key.password = effective_password(pw, kf)
                     /\ o.store.master_key.params =
                            IF header.argon2_params.some THEN header.argon2_params.val
                            ELSE Params(65536, 3, 4)
    /\ \A p \in Writers :
           (last[p].op = "open" /\ edits = 0
            /\ last[p].pw = diskCred.pw /\ last[p].kf = diskCred.kf)
           => /\ last[p].res = "Ok"
              /\ store[p].master_key.params = StoredOrDefault(store[p].header)

\* a v0.1.0 vault, whose header has no argon2_params, was given a secret, saved and
\* opened again
OpenUsesStoredParamsWitness ==
    \E p \in Writers :
        /\ last[p].op = "open" /\ last[p].res = "Ok"
        /\ ~store[p].header.argon2_params.some
        /\ store[p].master_key.params = Params(65536, 3, 4)
        /\ diskPlain # EmptyMap

\* C18 as stated, for the vault file: when create or save has returned Ok, the file at
\* the target path has mode 0600.
VaultOwnerOnly ==
    \A p \in Writers :
        (pc[p] = "idle" /\ last[p].op \in {"create", "save"} /\ last[p].res = "Ok")
        => (target.exists /\ target.mode = 384)

\* C19 as stated: when a call has returned, on whatever path, every per-secret key and
\* every HMAC key it derived has been wiped.
KeysWiped ==
    \A p \in Writers : pc[p] = "idle" => last[p].unwiped = {}

\* C20 as stated: after any sequence of calls every stored secret has
\* created_at <= updated_at.
TimestampsOrdered ==
    \A p \in Writers : \A n \in DOMAIN store[p].secrets :
        store[p].secrets[n].created_at <= store[p].secrets[n].updated_at

\* C20, amended: set_secret on a stored name keeps that secret's created_at and sets
\* updated_at to the time the clock shows, set_secret on a new name sets both to that
\* time, and no other secret changes; the secret written has created_at <= updated_at
\* if the clock does not show a time earlier than the secret's created_at.
UpdateKeepsCreatedAt ==
    [][ \A p \in Writers, n \in Names, v \in Values, nc \in Nonces :
          SetSecret(p, n, v, nc)
          => LET old == store[p].secrets
                 new == store'[p].secrets
             IN  /\ DOMAIN new = DOMAIN old \cup {n}
                 /\ new[n].updated_at = now
                 /\ new[n].created_at = IF n \in DOMAIN old THEN old[n].created_at ELSE now
                 /\ (n \in DOMAIN old => old[n].created_at <= now)
                    => new[n].created_at <= new[n].updated_at
                 /\ \A m \in DOMAIN old \ {n} : new[m] = old[m]
      ]_vars

\* a secret saved at time 0 was updated in a later session, at a later time
UpdateKeepsCreatedAtWitness ==
    \E p \in Writers :
        /\ last[p].op = "set_secret" /\ last[p].res = "Ok"
        /\ NameA \in DOMAIN diskPlain
        /\ NameA \in DOMAIN store[p].secrets
        /\ store[p].secrets[NameA].created_at = 0
        /\ store[p].secrets[NameA].updated_at = now
        /\ now > 0

\* C21: delete_secret(name) on a stored name removes exactly that entry and leaves every
\* other entry as it was; after it get_secret(name) and a second delete_secret(name)
\* return SecretNotFound; delete_secret of a valid name that is not stored returns
\* SecretNotFound and leaves the map as it was.
DeleteRemovesExactly ==
    [][ \A p \in Writers, n \in NameArgs :
          /\ (DeleteSecret(p, n) /\ validate_secret_name(n) = "Ok")
             => LET old == store[p].secrets
                    new == store'[p].secrets
                IN  IF n \in DOMAIN old
                    THEN /\ last'[p].res = "Ok"
                         /\ DOMAIN new = DOMAIN old \ {n}
                         /\ \A m \in DOMAIN new : new[m] = old[m]
                         /\ store'[p] = [store[p] EXCEPT !.secrets = new]
                         /\ get_secret(store'[p], n).res = "SecretNotFound"
                         /\ delete_secret(store'[p], n).res = "SecretNotFound"
                    ELSE /\ last'[p].res = "SecretNotFound"
                         /\ store'[p] = store[p]
          /\ (last[p].op = "delete_secret" /\ last[p].res = "Ok" /\ last[p].name = n
              /\ (GetSecret(p, n) \/ DeleteSecret(p, n)))
             => (last'[p].res = "SecretNotFound" /\ store'[p] = store[p])
      ]_vars

\* "A" was deleted from a store that also holds "B", and the next call, get_secret("A")
\* or delete_secret("A"), has returned SecretNotFound
DeleteRemovesExactlyWitness ==
    \E p \in Writers :
        /\ last[p].op \in {"get_secret", "delete_secret"}
        /\ last[p].res = "SecretNotFound"
        /\ last[p].name = NameA
        /\ NameA \in DOMAIN diskPlain
        /\ NameA \notin DOMAIN store[p].secrets
        /\ NameB \in DOMAIN store[p].secrets

\* the rule for secret names as the documentation states it
NameRule(name) ==
    /\ Len(name) >= 1
    /\ Len(name) <= 256
    /\ \A i \in 1..Len(name) :
           \/ name[i] \in 65..90 \/ name[i] \in 97..122       \* A-Z, a-z
           \/ name[i] \in 48..57                               \* 0-9
           \/ name[i] \in {95, 45, 46}                         \* _ - .

\* C22: set_secret, get_secret and delete_secret reject a name that is empty, longer
\* than 256 bytes or holds a byte outside letters, digits, '_', '-', '.', with
\* CommandFailed, having derived no key and leaving the store as it was; so every
\* stored name satisfies the rule and is the name field of its record.
NamesFailFast ==
    /\ [](\A p \in Writers : \A n \in DOMAIN store[p].secrets :
              NameRule(n) /\ store[p].secrets[n].name = n)
    /\ [][ \A p \in Writers, n \in NameTries :
             ((SetSecret(p, n, "v1", 1) \/ GetSecret(p, n) \/ DeleteSecret(p, n))
              /\ ~NameRule(n))
             => /\ last'[p].res = "CommandFailed"
                /\ last'[p].keys = {}
                /\ store'[p] = store[p]
         ]_vars

\* a store that holds the 256-byte name and "a_0-Z." has refused the 257-byte name
NamesFailFastWitness ==
    \E p \in Writers :
        /\ last[p].op = "set_secret" /\ last[p].res = "CommandFailed"
        /\ last[p].name = Name257
        /\ DOMAIN store[p].secrets = {Name256, NameMixed}

\* the rule for environment names as the documentation states it
EnvRule(name) ==
    /\ Len(name) >= 1
    /\ Len(name) <= 64
    /\ \A i \in 1..Len(name) : name[i] \in 97..122 \/ name[i] \in 48..57 \/ name[i] = 45
    /\ name[1] # 45
    /\ name[Len(name)] # 45

\* C23: validate_env_name returns Ok exactly for a name of 1 to 64 characters, all of
\* them lowercase ASCII letters, digits or '-', that neither starts nor ends with '-';
\* for every other name it returns ConfigError.
EnvNameRule ==
    \A p \in Writers :
        last[p].op = "validate_env_name"
        => /\ last[p].res \in {"Ok", "ConfigError"}
           /\ last[p].res = "Ok" <=> EnvRule(last[p].name)

\* the name of 64 characters with a hyphen in the middle was accepted
EnvNameRuleWitness ==
    \E p \in Writers :
        /\ last[p].op = "validate_env_name"
        /\ last[p].name = Env64Inner
        /\ last[p].res = "Ok"

\* `a` comes strictly before `b` in the order of str::cmp: byte-wise, a proper prefix first
NameBefore(a, b) ==
    \E k \in 0..Min(Len(a), Len(b)) :
        /\ \A i \in 1..k : a[i] = b[i]
        /\ \/ (k = Len(a) /\ k < Len(b))
           \/ (k < Len(a) /\ k < Len(b) /\ a[k + 1] < b[k + 1])

\* C24: list_secrets returns one entry (name, created_at, updated_at) for each stored
\* secret and no other, in strictly ascending order of name, and derives no key.
ListSorted ==
    \A p \in Writers :
        last[p].op = "list_secrets"
        => LET list == last[p].list
               secrets == store[p].secrets
           IN  /\ last[p].res = "Ok"
               /\ Len(list) = Cardinality(DOMAIN secrets)
               /\ \A n \in DOMAIN secrets :
                      \E i \in DOMAIN list :
                          list[i] = [name |-> n, created_at |-> secrets[n].created_at,
                                     updated_at |-> secrets[n].updated_at]
               /\ \A i, j \in DOMAIN list : i < j => NameBefore(list[i].name, list[j].name)
               /\ last[p].keys = {}

\* four secrets set at two different times were listed: "A", "AB", "B", "a"
ListSortedWitness ==
    \E p \in Writers :
        /\ last[p].op = "list_secrets"
        /\ Len(last[p].list) = 4
        /\ last[p].list[2].name = NameAB
        /\ last[p].list[1].created_at # last[p].list[4].created_at

IsPrefix(a, b) == Len(a) <= Len(b) /\ SubSeq(b, 1, Len(a)) = a

\* the HKDF labels of the keys under which the stored ciphertexts of `p` were made
SecretLabels(p) ==
    {store[p].secrets[n].encrypted_value.key.info : n \in DOMAIN store[p].secrets}

\* the HKDF labels of the keys under which the tag of the file on disk was made
HmacLabels == {c.v.key.info : c \in {x \in Range(target.data) : x.k = "mac"}}

\* C25 as stated: the labels in use are pairwise distinct and none is a prefix of
\* another.
LabelsPrefixFree ==
    \A p \in Writers :
        \A a, b \in SecretLabels(p) \cup HmacLabels : a # b => ~IsPrefix(a, b)

\* C25, amended: the keys for distinct names have distinct labels; the label of the HMAC
\* key is distinct from every per-secret label and neither is a prefix of the other;
\* the label of one secret is a prefix of the label of another exactly when the one
\* name is a prefix of the other name.
LabelsSeparate ==
    \A p \in Writers :
        LET label(n) == store[p].secrets[n].encrypted_value.key.info
        IN  /\ \A n, m \in DOMAIN store[p].secrets :
                   /\ n # m => label(n) # label(m)
                   /\ IsPrefix(label(n), label(m)) <=> IsPrefix(n, m)
            /\ \A n \in DOMAIN store[p].secrets : \A h \in HmacLabels :
                   /\ label(n) # h
                   /\ ~IsPrefix(label(n), h)
                   /\ ~IsPrefix(h, label(n))
            /\ \A h \in HmacLabels : h = HMAC_INFO

\* the vault file carries a tag and the store holds "A" and "AB"
LabelsSeparateWitness ==
    \E p \in Writers :
        /\ HmacLabels # {}
        /\ {NameA, NameAB} \subseteq DOMAIN store[p].secrets

\* C26: the bytes save() writes do not depend on the order in which the map yields its
\* entries, so stores with the same header, master key and records write the same file;
\* after a save the file holds those bytes, and a save that follows a save with no
\* call between them writes the bytes the file already holds.
SaveReproducible ==
    /\ [](\A p \in Writers :
              store[p].live
              => \A o1, o2 \in values_orders(store[p].secrets) :
                     /\ save_buf_in(store[p], o1) = save_buf_in(store[p], o2)
                     /\ save_buf_in(store[p], o1) = save_buf(store[p])
                     /\ \A i, j \in DOMAIN sort_by(o1) :
                            i < j => NameBefore(sort_by(o1)[i].name, sort_by(o1)[j].name))
    /\ [](\A p \in Writers :
              (pc[p] = "idle" /\ last[p].op = "save" /\ last[p].res = "Ok")
              => \A o \in values_orders(store[p].secrets) :
                     target.data = save_buf_in(store[p], o))
    /\ [][ \A p \in Writers :
             (SaveBegin(p) /\ last[p].op = "save" /\ last[p].res = "Ok")
             => \A o \in values_orders(store[p].secrets) :
                    save_buf_in(store'[p], o) = target.data
         ]_vars

\* a store holding "A", "AB" and "B" is in a save whose temp file is complete and
\* equal to the vault file it is about to replace
SaveReproducibleWitness ==
    \E p \in Writers :
        /\ op[p] = "save" /\ pc[p] = "rename"
        /\ DOMAIN store[p].secrets = {NameA, NameAB, NameB}
        /\ target.exists /\ tmp.exists
        /\ tmp.data = target.data

\* C27 as stated: once the temp file is written and the editor is called, whichever way
\* the command goes on (the editor cannot be launched, exits non-zero, exits with
\* success, the edited file cannot be read), the temp file is gone when the command
\* leaves the editor step: no plaintext temp file outlives the command.
EditTempRemoved ==
    [][ \A p \in Writers :
            pc[p] = "editor" /\ pc'[p] # "editor" => ~editTmp'[p].exists
      ]_vars

\* C29 as stated: of the calls of create on one fresh path at most one returns Ok, and
\* once every call has returned the vault file opens with the password of the caller
\* that got Ok.
CreateExclusive ==
    LET created == {p \in Writers : last[p].op = "create" /\ last[p].res = "Ok"}
    IN  /\ Cardinality(created) <= 1
        /\ (\A p \in Writers : pc[p] = "idle")
               => \A p \in created : open(target, last[p].pw, last[p].kf).res = "Ok"

\* C30: the store rotate-key hands to save holds the secrets of the old vault, each
\* with created_at and updated_at equal to the time of the rotation, under a header
\* that keeps the vault's created_at; and the vault file a successful rotation leaves
\* holds these timestamps.
RotationResetsTimestamps ==
    [][ \A p \in Writers :
            /\ (pc[p] = "idle" /\ pc'[p] = "tmp_open" /\ op'[p] = "rotate")
                  => LET old == open(target, last'[p].oldpw, last'[p].kf).store
                     IN  /\ DOMAIN store'[p].secrets = DOMAIN old.secrets
                         /\ \A n \in DOMAIN store'[p].secrets :
                                /\ store'[p].secrets[n].created_at = now
                                /\ store'[p].secrets[n].updated_at = now
                         /\ store'[p].header.created_at = old.header.created_at
            /\ (op[p] = "rotate" /\ last[p].res = "Pending" /\ last'[p].res = "Ok")
                  => LET new == open(target', last'[p].pw, last'[p].kf)
                     IN  /\ new.res = "Ok"
                         /\ \A n \in DOMAIN new.store.secrets :
                                /\ new.store.secrets[n].created_at = now
                                /\ new.store.secrets[n].updated_at = now
      ]_vars

\* a rotation is under way on a vault one of whose secrets was created before the time
\* of the rotation, and the re-inserted secret carries the later time
RotationResetsTimestampsWitness ==
    \E p \in Writers :
        /\ op[p] = "rotate" /\ pc[p] = "rename"
        /\ LET old == open(target, last[p].oldpw, last[p].kf)
           IN  /\ old.res = "Ok"
               /\ \E n \in DOMAIN old.store.secrets :
                      /\ n \in DOMAIN store[p].secrets
                      /\ old.store.secrets[n].created_at < store[p].secrets[n].created_at
                      /\ store[p].secrets[n].created_at = now

\* the commands that log, by the name of their call record
Audited == {"set", "delete", "export", "env-delete", "rotate", "edit"}

\* C28 as stated: a row is added to the audit log only by a step at which a command
\* returns Ok, so no row is added by a command that returns an error; and no command
\* fails because of the audit database.
AuditAfterTheFact ==
    /\ [][ audit' # audit
           => \E p \in Writers :
                  /\ pc'[p] = "idle"
                  /\ last'[p] # last[p]
                  /\ last'[p].op \in Audited
                  /\ last'[p].res = "Ok"
         ]_vars
    /\ [](\A p \in Writers : last[p].res # "AuditError")

====
